---- MODULE Spec2Model ----
(***************************************************************************)
(* Model of the Vers Terraform provider (hdresearch/vers-tf): the          *)
(* vers_provision and vers_vm_commit resource handlers, the SSH transport  *)
(* session they open, and the provisioning fingerprint (computeID).        *)
(*                                                                         *)
(* Strings are sequences of byte codes (small naturals); the empty string  *)
(* is <<>>.  A framework value (types.String, types.List, types.Map) is a  *)
(* record with a kind ("null", "unknown" or "known") next to its payload.  *)
(* A handler is a sequence of steps; every remote call is one step whose   *)
(* outcome is chosen nondeterministically.                                 *)
(***************************************************************************)
EXTENDS Integers, Sequences, FiniteSets, TLC

\* ---------------------------------------------------------------- bounds
MaxFiles == 2       \* longest declared file list of a handler request
MaxCmds == 3        \* longest declared command list of a handler request
MaxFpLen == 1       \* longest string fed to computeID in SpecFp
EngMaxCmds == 1     \* longest command list of an engine configuration
MaxConcExecs == 2   \* most commands one of the sessions of SpecConc runs
MaxVMs == 2         \* most VMs the remote creates in SpecRes
MaxImages == 2      \* most images the remote creates in SpecRes
MaxOps == 4         \* most operations Terraform starts in SpecRes
MaxLayers == 2      \* layers of the pipeline of SpecPipe
MaxWorkers == 1     \* workers restored from the last layer in SpecPipe
MaxEdits == 1       \* changes of a layer's declaration in SpecPipe
MaxApplies == 2     \* runs of terraform apply in SpecPipe
MaxLost == 1        \* VMs deleted outside of Terraform in SpecPipe
MaxContentLen == 3  \* longest content written in SpecFile
MaxPathLen == 3     \* longest destination path in SpecFile

\* ------------------------------------------------------ program constants
KeyPrefixLen == 12  \* vmID[:min(12, len(vmID))] in NewSSHClient

\* ------------------------------------------------------- framework values
StringNull == [kind |-> "null", value |-> <<>>]
StringUnknown == [kind |-> "unknown", value |-> <<>>]
StringValue(s) == [kind |-> "known", value |-> s]
IsNull(x) == x.kind = "null"
IsUnknown(x) == x.kind = "unknown"
\* ValueString returns "" for a null or unknown value
ValueString(x) == IF x.kind = "known" THEN x.value ELSE <<>>

ListNull == [kind |-> "null", elems |-> <<>>]
ListValue(s) == [kind |-> "known", elems |-> s]
MapNull == [kind |-> "null", elems |-> <<>>]
MapValue(f) == [kind |-> "known", elems |-> f]

min(a, b) == IF a < b THEN a ELSE b

\* ---------------------------------------------------------- string order
\* byte-wise lexicographic order, as Go compares strings (sort.Strings)
RECURSIVE StrLess(_, _)
StrLess(a, b) ==
    IF Len(b) = 0 THEN FALSE
    ELSE IF Len(a) = 0 THEN TRUE
    ELSE IF Head(a) < Head(b) THEN TRUE
    ELSE IF Head(a) > Head(b) THEN FALSE
    ELSE StrLess(Tail(a), Tail(b))

RECURSIVE InsertSorted(_, _)
InsertSorted(k, s) ==
    IF s = <<>> THEN <<k>>
    ELSE IF StrLess(k, Head(s)) THEN <<k>> \o s
    ELSE <<Head(s)>> \o InsertSorted(k, Tail(s))

\* variant of SortStrings that leaves the enumeration order as it is
SortStringsUnsorted(keys) == keys

RECURSIVE SortStrings(_)
SortStrings(keys) ==
    IF keys = <<>> THEN <<>>
    ELSE InsertSorted(Head(keys), SortStrings(Tail(keys)))

\* the enumerations (orders without repetition) of a finite set of keys:
\* the orders in which a Go map range may visit them
RECURSIVE Enumerations(_)
Enumerations(S) ==
    IF S = {} THEN {<<>>}
    ELSE UNION {{<<k>> \o e : e \in Enumerations(S \ {k})} : k \in S}

\* ------------------------------------------------------------- computeID
\* os.ReadFile on the machine running the provider: fs maps a path to
\* [ok |-> TRUE, content |-> bytes] or [ok |-> FALSE, content |-> <<>>]
ReadFile(fs, path) ==
    IF path \in DOMAIN fs THEN fs[path] ELSE [ok |-> FALSE, content |-> <<>>]

\* the bytes one file block writes to the hash
FileBytes(f, fs) ==
    ValueString(f.Destination)
    \o (IF ~IsNull(f.Source)
        THEN (IF ReadFile(fs, ValueString(f.Source)).ok
              THEN ReadFile(fs, ValueString(f.Source)).content
              ELSE ValueString(f.Source))
        ELSE <<>>)
    \o (IF ~IsNull(f.Content) THEN ValueString(f.Content) ELSE <<>>)

RECURSIVE FilesBytes(_, _)
FilesBytes(files, fs) ==
    IF files = <<>> THEN <<>>
    ELSE FileBytes(Head(files), fs) \o FilesBytes(Tail(files), fs)

RECURSIVE CommandsBytes(_)
CommandsBytes(cmds) ==
    IF cmds = <<>> THEN <<>> ELSE Head(cmds) \o CommandsBytes(Tail(cmds))

RECURSIVE TriggersBytes(_, _)
TriggersBytes(keys, triggers) ==
    IF keys = <<>> THEN <<>>
    ELSE Head(keys) \o ValueString(triggers[Head(keys)])
         \o TriggersBytes(Tail(keys), triggers)

\* the byte stream computeID feeds to the hash; enum is the order in which
\* the range over the trigger map visits its keys
HashInput(plan, fs, enum) ==
    ValueString(plan.VMID)
    \o (IF ~IsNull(plan.Files) /\ ~IsUnknown(plan.Files)
        THEN FilesBytes(plan.Files.elems, fs) ELSE <<>>)
    \o (IF ~IsNull(plan.Commands) /\ ~IsUnknown(plan.Commands)
        THEN CommandsBytes(plan.Commands.elems) ELSE <<>>)
    \o (IF ~IsNull(plan.Triggers) /\ ~IsUnknown(plan.Triggers)
        THEN TriggersBytes(SortStrings(enum), plan.Triggers.elems) ELSE <<>>)

\* hex(sha256(input))[:16]; the hash is taken to be injective on its input,
\* so a fingerprint is represented by the byte stream it was computed from
computeID(plan, fs, enum) == HashInput(plan, fs, enum)

\* ---------------------------------------------------------- triggersEqual
\* variant of triggersEqual in which two null maps differ
triggersEqualNullDiffers(a, b) ==
    IF IsNull(a) \/ IsNull(b) THEN FALSE
    ELSE IF Cardinality(DOMAIN a.elems) # Cardinality(DOMAIN b.elems) THEN FALSE
    ELSE \A k \in DOMAIN a.elems :
            /\ k \in DOMAIN b.elems
            /\ ValueString(a.elems[k]) = ValueString(b.elems[k])

triggersEqual(a, b) ==
    IF IsNull(a) /\ IsNull(b) THEN TRUE
    ELSE IF IsNull(a) \/ IsNull(b) THEN FALSE
    ELSE IF Cardinality(DOMAIN a.elems) # Cardinality(DOMAIN b.elems) THEN FALSE
    ELSE \A k \in DOMAIN a.elems :
            /\ k \in DOMAIN b.elems
            /\ ValueString(a.elems[k]) = ValueString(b.elems[k])

\* ------------------------------------------------------------ SSH session
\* the key file NewSSHClient writes: vers-<first 12 bytes of the VM id>.pem
KeyPath(vmID) == SubSeq(vmID, 1, min(KeyPrefixLen, Len(vmID)))

\* variant of Cleanup that leaves the key file in place
CleanupKeepsFile(files, keyPath) == files

\* SSHClient.Cleanup: os.Remove(s.KeyPath)
Cleanup(files, keyPath) == files \ {keyPath}


\* ------------------------------------------------------------------ state
VARIABLES
    op,         \* the handler that is running, "none" between handlers
    pc,         \* the position of the running handler
    req,        \* its request: [Plan |-> model, State |-> model]
    i,          \* the index of the file or command loop (0-based, as in Go)
    log,        \* the calls the handler has completed, in order
    inflight,   \* the remote command started by ExecWithTimeout and not yet
                \* finished or killed; in WaitReachable and WaitForBoot
                \* the number of rounds made so far
    diags,      \* resp.Diagnostics: the errors reported so far
    respState,  \* resp.State as the handler leaves it
    tflogs,     \* the warnings written with tflog.Warn
    deferred,   \* the SSHClient whose Cleanup is deferred, if any
    keyFiles,   \* the key files present in the key directory
    tfstate,    \* the engine's record of the vers_provision resource
    planned,    \* the engine's pending plan for it
    fp,         \* SpecFp: the input of computeID and its result
    sess,       \* SpecConc: the sessions of the operations running side by side
    world,      \* SpecRes: the remote VMs and images, and the engine's records
    pipe,       \* SpecPipe: the layered pipeline's records, plan and apply
    xfer,       \* SpecFile: a file transfer, its commands and the VM's files
    wait,       \* SpecReach, SpecBoot: a polling loop, its clock and deadline
    exec,       \* SpecExec: one ExecWithTimeout call, its goroutine and timer
    twin        \* SpecTwin: Create and Update run on one declaration

handlerVars == <<op, pc, req, i, log, inflight, diags, respState, tflogs, deferred>>
engineVars == <<tfstate, planned>>
otherVars == <<sess, world, pipe, xfer, wait, exec, twin>>
vars == <<op, pc, req, i, log, inflight, diags, respState, tflogs, deferred,
          keyFiles, tfstate, planned, fp, otherVars>>

\* ------------------------------------------------------------------ paths
\* A path is a sequence of bytes.
SLASH == 47
DOT == 46
\* "." as filepath.Dir returns it
DotDir == <<DOT>>
DotDot == <<DOT, DOT>>
RootDir == <<SLASH>>

RECURSIVE LastSlash(_, _)
LastSlash(p, k) ==
    IF k = 0 THEN 0 ELSE IF p[k] = SLASH THEN k ELSE LastSlash(p, k - 1)

\* the elements of a path: what stands between its slashes
RECURSIVE Elements(_, _, _, _)
Elements(p, k, cur, acc) ==
    IF k > Len(p) THEN Append(acc, cur)
    ELSE IF p[k] = SLASH THEN Elements(p, k + 1, <<>>, Append(acc, cur))
    ELSE Elements(p, k + 1, Append(cur, p[k]), acc)
PathElements(p) == Elements(p, 1, <<>>, <<>>)
IsRooted(p) == p # <<>> /\ p[1] = SLASH

\* the elements joined by single slashes, after a slash for a rooted path;
\* "." when nothing is left
RECURSIVE JoinElements(_)
JoinElements(st) ==
    IF st = <<>> THEN <<>>
    ELSE IF Len(st) = 1 THEN st[1]
    ELSE st[1] \o <<SLASH>> \o JoinElements(Tail(st))
PathOf(rooted, st) ==
    IF rooted THEN <<SLASH>> \o JoinElements(st)
    ELSE IF st = <<>> THEN DotDir
    ELSE JoinElements(st)

\* filepath.Clean, element by element: an empty element (of a run of
\* slashes or a trailing slash) and "." are dropped; ".." takes away the
\* element before it, is dropped at the root, and stays at the start of a
\* path that is not rooted
RECURSIVE CleanElements(_, _, _, _)
CleanElements(el, k, rooted, st) ==
    IF k > Len(el) THEN st
    ELSE IF el[k] = <<>> \/ el[k] = DotDir
    THEN CleanElements(el, k + 1, rooted, st)
    ELSE IF el[k] = DotDot
    THEN IF st # <<>> /\ st[Len(st)] # DotDot
         THEN CleanElements(el, k + 1, rooted, SubSeq(st, 1, Len(st) - 1))
         ELSE IF rooted THEN CleanElements(el, k + 1, rooted, st)
         ELSE CleanElements(el, k + 1, rooted, Append(st, DotDot))
    ELSE CleanElements(el, k + 1, rooted, Append(st, el[k]))
Clean(d) ==
    IF d = <<>> THEN DotDir
    ELSE PathOf(IsRooted(d), CleanElements(PathElements(d), 1, IsRooted(d), <<>>))

\* filepath.Dir(remotePath): all but the last element, cleaned
Dir(p) ==
    IF LastSlash(p, Len(p)) = 0 THEN DotDir
    ELSE Clean(SubSeq(p, 1, LastSlash(p, Len(p))))

\* variant of NeedsMkdir that makes the directory unless it is "."
NeedsMkdirUnlessDot(dir) == dir # DotDir

\* if dir != "." && dir != "/"
NeedsMkdir(dir) == dir # DotDir /\ dir # RootDir

\* ------------------------------------------------------- request domains
SeqsUpTo(S, n) == UNION {[1..k -> S] : k \in 0..n}

VMIDs == {<<1>>}
SrcPath == <<1>>

\* type FileBlock struct { Source, Content, Destination }: the blocks a
\* request may hold: source only, content only, both, neither, an empty
\* content, and an empty source next to a content
\* The destination is a file name in the working directory or a path
\* with a directory part.
PlainDest == <<2>>
DeepDest == <<2, SLASH, 2>>
FileAt(source, content, dest) ==
    [Source |-> source, Content |-> content, Destination |-> StringValue(dest)]
File(source, content) == FileAt(source, content, PlainDest)
FileBlocks ==
    {FileAt(StringValue(SrcPath), StringNull, DeepDest),
     FileAt(StringNull, StringValue(<<1>>), DeepDest),
     File(StringValue(SrcPath), StringValue(<<1>>)),
     File(StringNull, StringNull),
     File(StringNull, StringValue(<<>>)),
     File(StringValue(<<>>), StringValue(<<1>>))}

FileLists == {ListNull} \cup {ListValue(s) : s \in SeqsUpTo(FileBlocks, MaxFiles)}
CommandLists == {ListNull} \cup {ListValue(s) : s \in SeqsUpTo({<<1>>}, MaxCmds)}

\* the zero value of ProvisionResourceModel
NullModel ==
    [ID |-> StringNull, VMID |-> StringNull, Files |-> ListNull,
     Commands |-> ListNull, Triggers |-> MapNull]

\* type ProvisionResourceModel struct { ID, VMID, Files, Commands, Triggers }
ProvisionPlans ==
    [ID : {StringUnknown}, VMID : {StringValue(v) : v \in VMIDs},
     Files : FileLists, Commands : CommandLists,
     Triggers : {MapValue(<<1>> :> StringValue(<<1>>))}]

\* type VMCommitResourceModel struct { ID, VMID, CommitID, KeepPaused, Triggers }
CommitPlans ==
    [ID : {StringUnknown}, VMID : {StringValue(v) : v \in VMIDs},
     CommitID : {StringUnknown}, KeepPaused : BOOLEAN, Triggers : {MapNull}]

ImageIDs == {<<3>>}

\* what os.ReadFile may find at the one local source path
LocalFSs ==
    {SrcPath :> [ok |-> FALSE, content |-> <<>>],
     SrcPath :> [ok |-> TRUE, content |-> <<1>>]}

\* ----------------------------------------------------------------- helpers
Call(name, pos, ok) == [call |-> name, pos |-> pos, ok |-> ok]
Error(summary, pos) == [severity |-> "error", summary |-> summary, pos |-> pos]
HasError == \E k \in 1..Len(diags) : diags[k].severity = "error"

NoInflight == [call |-> "none", pos |-> 0]
NoDeferred == [set |-> FALSE, KeyPath |-> <<>>]
Unset == [set |-> "unset", model |-> NullModel]
NoPlanned ==
    [action |-> "none", config |-> NullModel, prior |-> Unset,
     RequiresReplace |-> {}, destroyed |-> FALSE]
\* a specification that does not use a variable leaves it at Off
Off == [on |-> FALSE]
OthersIdle ==
    /\ sess = Off /\ world = Off /\ pipe = Off /\ xfer = Off
    /\ wait = Off /\ exec = Off /\ twin = Off
NoFp == [done |-> FALSE, plan |-> NullModel, fs |-> <<>>, enum |-> <<>>, id |-> <<>>]

\* the most probes of one WaitReachable and the most polls of one
\* WaitForBoot
MaxProbes == 2
MaxPolls == 2

ProvisionHandlers == {"Create", "Update"}
CommitHandlers == {"VMCommitCreate", "VMCommitUpdate"}
\* the copy of vm_commit.go that has no syncBeforeCommit
CommitHandlersNoSync == {"VMCommitCreateNoSync", "VMCommitUpdateNoSync"}

vmID == ValueString(req.Plan.VMID)
files == req.Plan.Files.elems
commands == req.Plan.Commands.elems

\* a handler returns: its deferred Cleanup runs
Return ==
    /\ pc' = "returned"
    /\ deferred' = NoDeferred
    /\ keyFiles' = IF deferred.set THEN Cleanup(keyFiles, deferred.KeyPath)
                   ELSE keyFiles

ReturnError(summary, pos) ==
    /\ diags' = Append(diags, Error(summary, pos))
    /\ Return

Init ==
    /\ op = "none"
    /\ pc = "idle"
    /\ req = [Plan |-> NullModel, State |-> NullModel]
    /\ i = 0
    /\ log = <<>>
    /\ inflight = NoInflight
    /\ diags = <<>>
    /\ respState = Unset
    /\ tflogs = {}
    /\ deferred = NoDeferred
    /\ keyFiles = {}
    /\ tfstate = Unset
    /\ planned = NoPlanned
    /\ fp = NoFp
    /\ OthersIdle

\* ------------------------------------------------- vers_provision handlers
\* Terraform calls Create or Update with a plan
InvokeProvision(h, plan) ==
    /\ op = "none"
    /\ op' = h
    /\ pc' = "GetSSHKey"
    /\ req' = [Plan |-> plan, State |-> NullModel]
    /\ UNCHANGED <<i, log, inflight, diags, respState, tflogs, deferred,
                   keyFiles, tfstate, planned, fp, otherVars>>

\* sshKey, err := r.client.GetSSHKey(vmID)
ProvGetSSHKey ==
    /\ op \in ProvisionHandlers
    /\ pc = "GetSSHKey"
    /\ \E ok \in BOOLEAN :
        /\ log' = Append(log, Call("GetSSHKey", 0, ok))
        /\ IF ok
           THEN /\ pc' = "NewSSHClient"
                /\ UNCHANGED <<diags, deferred, keyFiles>>
           ELSE ReturnError("Failed to get SSH key for VM", 0)
    /\ UNCHANGED <<op, req, i, inflight, respState, tflogs, tfstate, planned, fp, otherVars>>

\* ssh, err := client.NewSSHClient(vmID, key); defer ssh.Cleanup()
\* A failed os.WriteFile may or may not have created the key file.
ProvNewSSHClient ==
    /\ op \in ProvisionHandlers
    /\ pc = "NewSSHClient"
    /\ \E out \in {"ok", "mkdirfail", "writefail"}, created \in BOOLEAN :
        /\ log' = Append(log, Call("NewSSHClient", 0, out = "ok"))
        /\ IF out = "ok"
           THEN /\ created
                /\ keyFiles' = keyFiles \cup {KeyPath(vmID)}
                /\ deferred' = [set |-> TRUE, KeyPath |-> KeyPath(vmID)]
                /\ pc' = "WaitReachable"
                /\ UNCHANGED diags
           ELSE /\ (out = "mkdirfail") => ~created
                /\ keyFiles' = IF created THEN keyFiles \cup {KeyPath(vmID)}
                               ELSE keyFiles
                /\ diags' = Append(diags, Error("Failed to create SSH client", 0))
                /\ pc' = "returned"
                /\ UNCHANGED deferred
    /\ UNCHANGED <<op, req, i, inflight, respState, tflogs, tfstate, planned, fp, otherVars>>

\* variant of NextFile that passes over every other file
NextFileSkipping(idx) == idx + 2

\* the range loop over files advances by one
NextFile(idx) == idx + 1

\* the position after the file loop has advanced to index j
AfterFile(j) ==
    IF j < Len(files) THEN pc' = "Files" /\ i' = j
    ELSE pc' = "Commands" /\ i' = 0

\* if err := ssh.WaitReachable(3 * time.Minute): the loop of WaitReachable,
\* one probe at a time. Time is not counted here (SpecReach counts it):
\* the deadline may have passed after any sleep, and has passed after
\* MaxProbes probes. inflight.pos counts the probes that were not answered.
\* One probe: ExecWithTimeout("echo ready", 15*time.Second); an answer ends
\* the wait, anything else leads to the sleep
ProvWaitReachable ==
    /\ op \in ProvisionHandlers
    /\ pc = "WaitReachable"
    /\ \E answered \in BOOLEAN :
        IF answered
        THEN /\ log' = Append(log, Call("WaitReachable", 0, TRUE))
             /\ inflight' = NoInflight
             /\ AfterFile(0)
        ELSE /\ inflight' = [call |-> "WaitReachable", pos |-> inflight.pos + 1]
             /\ pc' = "ReachSleep"
             /\ UNCHANGED <<i, log>>
    /\ UNCHANGED <<op, req, diags, deferred, keyFiles, respState, tflogs, tfstate,
                   planned, fp, otherVars>>

\* variant of ProvReachSleep that goes on to the files after a failed wait
ProvReachSleepGoingOn ==
    /\ op \in ProvisionHandlers
    /\ pc = "ReachSleep"
    /\ \E before \in BOOLEAN :
        /\ before => inflight.pos < MaxProbes
        /\ IF before
           THEN /\ pc' = "WaitReachable"
                /\ UNCHANGED <<i, log, inflight, diags, deferred, keyFiles>>
           ELSE /\ log' = Append(log, Call("WaitReachable", 0, FALSE))
                /\ inflight' = NoInflight
                /\ diags' = Append(diags, Error("VM not reachable via SSH", 0))
                /\ AfterFile(0)
                /\ UNCHANGED <<deferred, keyFiles>>
    /\ UNCHANGED <<op, req, respState, tflogs, tfstate, planned, fp, otherVars>>

\* time.Sleep(3 * time.Second), then the loop condition
\* time.Now().Before(deadline): the next probe, or WaitReachable returns
\* its error and the handler reports it and returns
ProvReachSleep ==
    /\ op \in ProvisionHandlers
    /\ pc = "ReachSleep"
    /\ \E before \in BOOLEAN :
        /\ before => inflight.pos < MaxProbes
        /\ IF before
           THEN /\ pc' = "WaitReachable"
                /\ UNCHANGED <<i, log, inflight, diags, deferred, keyFiles>>
           ELSE /\ log' = Append(log, Call("WaitReachable", 0, FALSE))
                /\ inflight' = NoInflight
                /\ ReturnError("VM not reachable via SSH", 0)
                /\ UNCHANGED i
    /\ UNCHANGED <<op, req, respState, tflogs, tfstate, planned, fp, otherVars>>

\* the outcomes of uploading file block f (shared by Create and Update):
\* ssh.UploadFile(src, dest) when source is set and not empty, else
\* ssh.WriteFile(dest, content) when content is set and not empty
HasSource(f) == ~IsNull(f.Source) /\ ValueString(f.Source) # <<>>
HasContent(f) == ~IsNull(f.Content) /\ ValueString(f.Content) # <<>>

\* the call made for file block f and the summary of its error
FileCall(f) == IF HasSource(f) THEN "UploadFile" ELSE "WriteFile"
FileSummary(f) ==
    IF HasSource(f) THEN "Failed to upload file" ELSE "Failed to write content"

\* UploadFile: os.ReadFile(localPath) fails and the call returns before
\* any remote command, or WriteFile is entered. WriteFile: the first
\* remote command is mkdir -p unless filepath.Dir(remotePath) is "." or
\* "/"; the handler then waits in Exec (cmd.Run)
StartUpload(f) ==
    \E readable \in BOOLEAN :
        IF readable \/ ~HasSource(f)
        THEN /\ pc' = IF NeedsMkdir(Dir(ValueString(f.Destination)))
                      THEN "FileMkdir" ELSE "FileTransfer"
             /\ UNCHANGED <<i, log, diags, deferred, keyFiles>>
        ELSE /\ ReturnError(FileSummary(f), i + 1)
             /\ UNCHANGED <<i, log>>

\* Create: for i, f := range files { ... } with the final else branch
CreateFile ==
    /\ op = "Create"
    /\ pc = "Files"
    /\ LET f == files[i + 1] IN
        IF HasSource(f) \/ HasContent(f) THEN StartUpload(f)
        ELSE /\ ReturnError("File block: either 'source' or 'content' must be specified",
                            i + 1)
             /\ UNCHANGED <<i, log>>
    /\ UNCHANGED <<op, req, inflight, respState, tflogs, tfstate, planned, fp, otherVars>>

\* Update: for _, f := range files { ... } without an else branch: a block
\* with neither source nor content is passed over
UpdateFile ==
    /\ op = "Update"
    /\ pc = "Files"
    /\ LET f == files[i + 1] IN
        IF HasSource(f) \/ HasContent(f) THEN StartUpload(f)
        ELSE /\ AfterFile(NextFile(i))
             /\ UNCHANGED <<log, diags, deferred, keyFiles>>
    /\ UNCHANGED <<op, req, inflight, respState, tflogs, tfstate, planned, fp, otherVars>>

\* WriteFile: s.Exec("mkdir -p '<dir>'") returns; its error ends WriteFile
\* ("mkdir on VM") and the handler
ProvFileMkdir ==
    /\ op \in ProvisionHandlers
    /\ pc = "FileMkdir"
    /\ LET f == files[i + 1] IN
        \E ok \in BOOLEAN :
            IF ok
            THEN /\ pc' = "FileTransfer"
                 /\ UNCHANGED <<i, log, diags, deferred, keyFiles>>
            ELSE /\ log' = Append(log, Call(FileCall(f), i + 1, FALSE))
                 /\ ReturnError(FileSummary(f), i + 1)
                 /\ UNCHANGED i
    /\ UNCHANGED <<op, req, inflight, respState, tflogs, tfstate, planned, fp, otherVars>>

\* WriteFile: s.Exec("echo '<base64>' | base64 -d > '<path>'") returns;
\* WriteFile returns its error or nil, and the loop goes on to the next file
ProvFileTransfer ==
    /\ op \in ProvisionHandlers
    /\ pc = "FileTransfer"
    /\ LET f == files[i + 1] IN
        \E ok \in BOOLEAN :
            /\ log' = Append(log, Call(FileCall(f), i + 1, ok))
            /\ IF ok
               THEN /\ AfterFile(NextFile(i))
                    /\ UNCHANGED <<diags, deferred, keyFiles>>
               ELSE /\ ReturnError(FileSummary(f), i + 1)
                    /\ UNCHANGED i
    /\ UNCHANGED <<op, req, inflight, respState, tflogs, tfstate, planned, fp, otherVars>>

\* variant of CommandPosition that reports the 0-based loop index
CommandPositionZeroBased(idx) == idx

\* the position "Command %d failed" names for loop index idx: idx + 1
CommandPosition(idx) == idx + 1

\* variant of NextCommand that runs a failed command again
NextCommandRetrying(idx, ok) == IF ok THEN idx + 1 ELSE idx

\* the loop index after the command at idx: the next one, or none (-1)
\* when the command failed and the handler returns
NextCommand(idx, ok) == IF ok THEN idx + 1 ELSE -1

\* ExecWithTimeout, first half: cmd.Start()
ProvExecStart ==
    /\ op \in ProvisionHandlers
    /\ pc = "Commands"
    /\ i < Len(commands)
    /\ \E started \in BOOLEAN :
        IF started
        THEN /\ inflight' = [call |-> "Exec", pos |-> i + 1]
             /\ pc' = "ExecWait"
             /\ UNCHANGED <<diags, deferred, keyFiles>>
        ELSE /\ ReturnError("Command failed", CommandPosition(i))
             /\ UNCHANGED inflight
    /\ UNCHANGED <<op, req, i, log, respState, tflogs, tfstate, planned, fp, otherVars>>

\* ExecWithTimeout, second half: the select on done and time.After(timeout);
\* on timeout the process is killed
ProvExecWait ==
    /\ op \in ProvisionHandlers
    /\ pc = "ExecWait"
    /\ \E out \in {"exit0", "exitN", "timeout"} :
        /\ log' = Append(log, Call("Exec", i + 1, out = "exit0"))
        /\ inflight' = NoInflight
        /\ IF out # "exit0"
           THEN diags' = Append(diags, Error("Command failed", CommandPosition(i)))
           ELSE diags' = diags
        /\ IF NextCommand(i, out = "exit0") = -1
           THEN /\ Return
                /\ UNCHANGED i
           ELSE /\ pc' = "Commands"
                /\ i' = NextCommand(i, out = "exit0")
                /\ UNCHANGED <<deferred, keyFiles>>
    /\ UNCHANGED <<op, req, respState, tflogs, tfstate, planned, fp, otherVars>>

\* plan.ID = computeID(ctx, plan); resp.State.Set(ctx, &plan), where
\* os.ReadFile finds fs on the machine running the provider and the range
\* over the triggers visits them in the order enum
SetState(fs, enum) ==
    /\ op \in ProvisionHandlers
    /\ pc = "Commands"
    /\ i >= Len(commands)
    /\ respState' = [set |-> "set",
                     model |-> [req.Plan EXCEPT
                                  !.ID = StringValue(computeID(req.Plan, fs, enum))]]
    /\ Return
    /\ UNCHANGED <<op, req, i, log, inflight, diags, tflogs, tfstate, planned, fp, otherVars>>

\* the end of Create and of Update, whatever the local files and the order
\* of the range
ProvSetState ==
    /\ op \in ProvisionHandlers
    /\ pc = "Commands"
    /\ \E fs \in LocalFSs :
       \E enum \in Enumerations(DOMAIN req.Plan.Triggers.elems) :
           SetState(fs, enum)

\* ------------------------------------------------------------- the remote
\* In SpecRes the variable world holds what the Vers API holds: the VMs
\* (world.vms), the images (world.images) and how many of each it has
\* created; the ids it returns are fresh.
RemoteVMID(n) == <<n>>
RemoteImageID(n) == <<3, n>>

\* GetVM(id): ListVMs fails, or the list has no VM with this id (nil, nil),
\* or it has one
GetVMOutcomes(id) ==
    IF world.on
    THEN {"error", IF id \in world.vms THEN "found" ELSE "absent"}
    ELSE {"error", "absent", "found"}

\* the commit id in the response of POST /vm/{id}/commit
CommitResults ==
    IF world.on THEN {RemoteImageID(world.nimg + 1)} ELSE ImageIDs

\* the remote after that call: a successful commit adds an image
RemoteAfterCommit(ok, id) ==
    IF world.on /\ ok
    THEN [world EXCEPT !.images = @ \cup {id}, !.nimg = @ + 1]
    ELSE world

\* ------------------------------------------------- vers_vm_commit handlers
\* the zero value of VMCommitResourceModel
NullCommitModel ==
    [ID |-> StringNull, VMID |-> StringNull, CommitID |-> StringNull,
     KeepPaused |-> FALSE, Triggers |-> MapNull]

\* Terraform calls Create or Update of vers_vm_commit with a plan; the
\* handlers first call r.syncBeforeCommit(ctx, vmID)
InvokeCommit(h, plan) ==
    /\ op = "none"
    /\ op' = h
    /\ pc' = "SyncGetSSHKey"
    /\ req' = [Plan |-> plan, State |-> NullCommitModel]
    /\ UNCHANGED <<i, log, inflight, diags, respState, tflogs, deferred,
                   keyFiles, tfstate, planned, fp, otherVars>>

\* the copy of the handlers without syncBeforeCommit goes straight to
\* r.client.CommitVM
InvokeCommitNoSync(h, plan) ==
    /\ op = "none"
    /\ op' = h
    /\ pc' = "CommitVM"
    /\ req' = [Plan |-> plan, State |-> NullCommitModel]
    /\ UNCHANGED <<i, log, inflight, diags, respState, tflogs, deferred,
                   keyFiles, tfstate, planned, fp, otherVars>>

\* syncBeforeCommit: sshKey, err := r.client.GetSSHKey(vmID)
SyncGetSSHKey ==
    /\ op \in CommitHandlers
    /\ pc = "SyncGetSSHKey"
    /\ \E ok \in BOOLEAN :
        /\ log' = Append(log, Call("GetSSHKey", 0, ok))
        /\ IF ok
           THEN pc' = "SyncNewSSHClient" /\ UNCHANGED tflogs
           ELSE /\ pc' = "CommitVM"
                /\ tflogs' = tflogs \cup
                     {"Could not get SSH key for pre-commit sync (skipping)"}
    /\ UNCHANGED <<op, req, i, inflight, diags, respState, deferred, keyFiles,
                   tfstate, planned, fp, otherVars>>

\* syncBeforeCommit: ssh, err := client.NewSSHClient(...); defer ssh.Cleanup()
SyncNewSSHClient ==
    /\ op \in CommitHandlers
    /\ pc = "SyncNewSSHClient"
    /\ \E out \in {"ok", "mkdirfail", "writefail"}, created \in BOOLEAN :
        /\ log' = Append(log, Call("NewSSHClient", 0, out = "ok"))
        /\ IF out = "ok"
           THEN /\ created
                /\ keyFiles' = keyFiles \cup {KeyPath(vmID)}
                /\ deferred' = [set |-> TRUE, KeyPath |-> KeyPath(vmID)]
                /\ pc' = "SyncExec"
                /\ UNCHANGED tflogs
           ELSE /\ (out = "mkdirfail") => ~created
                /\ keyFiles' = IF created THEN keyFiles \cup {KeyPath(vmID)}
                               ELSE keyFiles
                /\ tflogs' = tflogs \cup
                     {"Could not create SSH client for pre-commit sync (skipping)"}
                /\ pc' = "CommitVM"
                /\ UNCHANGED deferred
    /\ UNCHANGED <<op, req, i, inflight, diags, respState, tfstate, planned, fp, otherVars>>

\* syncBeforeCommit returns: its deferred Cleanup runs, CommitVM is next
SyncReturn ==
    /\ pc' = "CommitVM"
    /\ deferred' = NoDeferred
    /\ keyFiles' = IF deferred.set THEN Cleanup(keyFiles, deferred.KeyPath)
                   ELSE keyFiles

\* ssh.ExecWithTimeout("sync", 2*time.Minute), first half: cmd.Start()
SyncExecStart ==
    /\ op \in CommitHandlers
    /\ pc = "SyncExec"
    /\ \E started \in BOOLEAN :
        IF started
        THEN /\ inflight' = [call |-> "sync", pos |-> 0]
             /\ pc' = "SyncExecWait"
             /\ UNCHANGED <<tflogs, deferred, keyFiles>>
        ELSE /\ tflogs' = tflogs \cup
                  {"Pre-commit sync failed (VM may not be SSH-reachable)"}
             /\ SyncReturn
             /\ UNCHANGED inflight
    /\ UNCHANGED <<op, req, i, log, diags, respState, tfstate, planned, fp, otherVars>>

\* ... second half: the command finishes, fails, or times out and is killed
SyncExecWait ==
    /\ op \in CommitHandlers
    /\ pc = "SyncExecWait"
    /\ \E out \in {"exit0", "exitN", "timeout"} :
        /\ log' = Append(log, Call("sync", 0, out = "exit0"))
        /\ inflight' = NoInflight
        /\ tflogs' = IF out = "exit0" THEN tflogs
                     ELSE tflogs \cup
                       {"Pre-commit sync failed (VM may not be SSH-reachable)"}
        /\ SyncReturn
    /\ UNCHANGED <<op, req, i, diags, respState, tfstate, planned, fp, otherVars>>

\* variant of Committed that leaves id as planned
CommittedKeepsID(plan, id) == [plan EXCEPT !.CommitID = StringValue(id)]

\* plan.CommitID = types.StringValue(result.CommitID);
\* plan.ID = types.StringValue(result.CommitID)
Committed(plan, id) ==
    [plan EXCEPT !.CommitID = StringValue(id), !.ID = StringValue(id)]

\* the summary of the error a failed commit call is reported with: Create
\* says "Failed to commit VM", Update "Failed to re-commit VM"
CommitSummary(o) ==
    IF o \in {"VMCommitUpdate", "VMCommitUpdateNoSync"}
    THEN "Failed to re-commit VM"
    ELSE "Failed to commit VM"

\* result, err := r.client.CommitVM(vmID, keepPaused); on success the
\* returned commit id is recorded as commit_id and id
CommitVM ==
    /\ op \in CommitHandlers \cup CommitHandlersNoSync
    /\ pc = "CommitVM"
    /\ \E ok \in BOOLEAN, id \in CommitResults :
        /\ log' = Append(log, Call("CommitVM", 0, ok) @@ [ret |-> id])
        /\ world' = RemoteAfterCommit(ok, id)
        /\ IF ok
           THEN /\ respState' = [set |-> "set",
                                 model |-> Committed(req.Plan, id)]
                /\ UNCHANGED diags
           ELSE /\ diags' = Append(diags, Error(CommitSummary(op), 0))
                /\ UNCHANGED respState
    /\ Return
    /\ UNCHANGED <<op, req, i, inflight, tflogs, tfstate, planned, fp, sess, pipe, xfer,
                   wait, exec, twin>>

\* ------------------------------------------------------------------- Spec
\* the response has been taken; the next handler may be called
Reset ==
    /\ pc = "returned"
    /\ op' = "none"
    /\ pc' = "idle"
    /\ req' = [Plan |-> NullModel, State |-> NullModel]
    /\ i' = 0
    /\ log' = <<>>
    /\ diags' = <<>>
    /\ respState' = Unset
    /\ tflogs' = {}
    /\ UNCHANGED <<inflight, deferred, keyFiles, tfstate, planned, fp, otherVars>>

ProvisionCreate == \E plan \in ProvisionPlans : InvokeProvision("Create", plan)
ProvisionUpdate == \E plan \in ProvisionPlans : InvokeProvision("Update", plan)
VMCommitCreate == \E plan \in CommitPlans : InvokeCommit("VMCommitCreate", plan)
VMCommitUpdate == \E plan \in CommitPlans : InvokeCommit("VMCommitUpdate", plan)
VMCommitCreateNoSync ==
    \E plan \in CommitPlans : InvokeCommitNoSync("VMCommitCreateNoSync", plan)
VMCommitUpdateNoSync ==
    \E plan \in CommitPlans : InvokeCommitNoSync("VMCommitUpdateNoSync", plan)

Next ==
    \/ ProvisionCreate
    \/ ProvisionUpdate
    \/ ProvGetSSHKey
    \/ ProvNewSSHClient
    \/ ProvWaitReachable
    \/ ProvReachSleep
    \/ CreateFile
    \/ UpdateFile
    \/ ProvFileMkdir
    \/ ProvFileTransfer
    \/ ProvExecStart
    \/ ProvExecWait
    \/ ProvSetState
    \/ VMCommitCreate
    \/ VMCommitUpdate
    \/ VMCommitCreateNoSync
    \/ VMCommitUpdateNoSync
    \/ SyncGetSSHKey
    \/ SyncNewSSHClient
    \/ SyncExecStart
    \/ SyncExecWait
    \/ CommitVM
    \/ Reset

Spec == Init /\ [][Next]_vars

TypeOK ==
    /\ op \in {"none", "Read"} \cup ProvisionHandlers \cup CommitHandlers \cup CommitHandlersNoSync
    /\ i \in 0..(MaxFiles + MaxCmds)
    /\ inflight.call \in {"none", "Exec", "sync", "WaitReachable", "WaitForBoot"}

\* --------------------------------------------------- vers_provision: Read
\* Terraform refreshes the recorded resource: Read with the prior state
InvokeRead(state) ==
    /\ op = "none"
    /\ op' = "Read"
    /\ pc' = "GetVM"
    /\ req' = [Plan |-> NullModel, State |-> state]
    /\ UNCHANGED <<i, log, inflight, diags, respState, tflogs, deferred,
                   keyFiles, tfstate, planned, fp, otherVars>>

\* vm, err := r.client.GetVM(state.VMID): the list call fails, or the VM is
\* absent from the list (RemoveResource), or it is present (state kept)
ReadGetVM ==
    /\ op = "Read"
    /\ pc = "GetVM"
    /\ \E out \in GetVMOutcomes(ValueString(req.State.VMID)) :
        /\ log' = Append(log, Call("ListVMs", 0, out # "error"))
        /\ diags' = IF out = "error"
                    THEN Append(diags, Error("Failed to verify VM exists", 0))
                    ELSE diags
        /\ respState' = IF out = "absent" THEN [set |-> "removed", model |-> NullModel]
                        ELSE IF out = "found" THEN [set |-> "set", model |-> req.State]
                        ELSE respState
    /\ Return
    /\ UNCHANGED <<op, req, i, inflight, tflogs, tfstate, planned, fp, otherVars>>

\* ------------------------------------------------------------- ModifyPlan
\* ModifyPlan: nothing when creating or destroying; when the triggers of
\* plan and state differ, id is set unknown and requires replacement
ModifyPlan(state, plan) ==
    IF state.set # "set" THEN {}
    ELSE IF ~triggersEqual(plan.Triggers, state.model.Triggers) THEN {"id"}
    ELSE {}

\* the attributes whose schema carries RequiresReplace and whose planned
\* value differs from the recorded one
SchemaRequiresReplace(state, plan) ==
    {a \in {"vm_id", "files", "commands"} :
        \/ a = "vm_id" /\ plan.VMID # state.model.VMID
        \/ a = "files" /\ plan.Files # state.model.Files
        \/ a = "commands" /\ plan.Commands # state.model.Commands}

SameDeclaration(a, b) ==
    /\ a.VMID = b.VMID
    /\ a.Files = b.Files
    /\ a.Commands = b.Commands
    /\ a.Triggers = b.Triggers

\* what the engine plans for a configuration, given the recorded state
PlanFor(state, config) ==
    LET rr == IF state.set = "set"
              THEN SchemaRequiresReplace(state, config) \cup ModifyPlan(state, config)
              ELSE {}
    IN [action |-> IF state.set # "set" THEN "create"
                   ELSE IF rr # {} THEN "replace"
                   ELSE IF ~SameDeclaration(config, state.model) THEN "update"
                   ELSE "noop",
        config |-> config, prior |-> state, RequiresReplace |-> rr,
        destroyed |-> FALSE]

\* ----------------------------------------------------------------- engine
\* the configurations the operator may write for the one vers_provision
InlineFile == FileAt(StringNull, StringValue(<<1>>), DeepDest)
EmptyFile == File(StringNull, StringNull)
EngFileLists ==
    {ListNull, ListValue(<<InlineFile>>), ListValue(<<InlineFile, InlineFile>>),
     ListValue(<<EmptyFile>>)}
EngTriggers ==
    {MapNull, MapValue(<<>>), MapValue(<<1>> :> StringNull),
     MapValue(<<1>> :> StringValue(<<>>)), MapValue(<<1>> :> StringValue(<<1>>))}
EngConfigs ==
    [ID : {StringUnknown}, VMID : {StringValue(v) : v \in VMIDs},
     Files : EngFileLists,
     Commands : {ListNull} \cup {ListValue(s) : s \in SeqsUpTo({<<1>>}, EngMaxCmds)},
     Triggers : EngTriggers]

\* terraform plan
EngPlan ==
    /\ op = "none"
    /\ planned.action = "none"
    /\ \E config \in EngConfigs : planned' = PlanFor(tfstate, config)
    /\ UNCHANGED <<handlerVars, keyFiles, tfstate, fp, otherVars>>

\* replacement starts with Delete of the recorded resource:
\* ProvisionResource.Delete makes no call; the record is dropped
ProvisionDelete ==
    /\ op = "none"
    /\ planned.action = "replace"
    /\ ~planned.destroyed
    /\ tfstate' = Unset
    /\ planned' = [planned EXCEPT !.destroyed = TRUE]
    /\ UNCHANGED <<handlerVars, keyFiles, fp, otherVars>>

EngApplyCreate ==
    /\ planned.action = "create" \/ (planned.action = "replace" /\ planned.destroyed)
    /\ InvokeProvision("Create", planned.config)

\* the planned id of an in-place update is the recorded id (UseStateForUnknown)
EngApplyUpdate ==
    /\ planned.action = "update"
    /\ op = "none"
    /\ op' = "Update"
    /\ pc' = "GetSSHKey"
    /\ req' = [Plan |-> [planned.config EXCEPT !.ID = tfstate.model.ID],
               State |-> tfstate.model]
    /\ UNCHANGED <<i, log, inflight, diags, respState, tflogs, deferred,
                   keyFiles, tfstate, planned, fp, otherVars>>

EngApplyNoop ==
    /\ op = "none"
    /\ planned.action = "noop"
    /\ planned' = NoPlanned
    /\ UNCHANGED <<handlerVars, keyFiles, tfstate, fp, otherVars>>

\* terraform refresh
EngRefresh ==
    /\ planned.action = "none"
    /\ tfstate.set = "set"
    /\ InvokeRead(tfstate.model)

\* the engine takes the handler's response: a failed handler leaves the
\* record as it was, RemoveResource drops it, State.Set replaces it
EngFinish ==
    /\ pc = "returned"
    /\ tfstate' = IF HasError \/ respState.set = "unset" THEN tfstate
                  ELSE IF respState.set = "removed" THEN Unset
                  ELSE respState
    /\ planned' = NoPlanned
    /\ op' = "none"
    /\ pc' = "idle"
    /\ req' = [Plan |-> NullModel, State |-> NullModel]
    /\ i' = 0
    /\ log' = <<>>
    /\ diags' = <<>>
    /\ respState' = Unset
    /\ tflogs' = {}
    /\ UNCHANGED <<inflight, deferred, keyFiles, fp, otherVars>>

NextEngine ==
    \/ EngPlan
    \/ ProvisionDelete
    \/ EngApplyCreate
    \/ EngApplyUpdate
    \/ EngApplyNoop
    \/ EngRefresh
    \/ ReadGetVM
    \/ ProvGetSSHKey
    \/ ProvNewSSHClient
    \/ ProvWaitReachable
    \/ ProvReachSleep
    \/ CreateFile
    \/ UpdateFile
    \/ ProvFileMkdir
    \/ ProvFileTransfer
    \/ ProvExecStart
    \/ ProvExecWait
    \/ ProvSetState
    \/ EngFinish

SpecEngine == Init /\ [][NextEngine]_vars

\* ----------------------------------------------------- computeID on inputs
\* SpecFp applies computeID to declarations drawn from bounded sets
FpStrings == SeqsUpTo({1, 2}, MaxFpLen)
FpPath == <<1>>
FpCommands == {<<1>>, <<1, 2>>}
FpVMIDs == {<<1>>, <<1, 2>>}
FpValues == {StringNull} \cup {StringValue(s) : s \in FpStrings}

\* a declared file list together with the local file its source names:
\* no file, a file with inline content, or a file with a source path that
\* os.ReadFile can or cannot read
FpFileCases ==
    {[files |-> ListNull, fs |-> <<>>]}
    \cup {[files |-> ListValue(<<[Source |-> StringNull, Content |-> c,
                                   Destination |-> StringValue(<<2>>)]>>),
           fs |-> <<>>] : c \in FpValues}
    \cup {[files |-> ListValue(<<[Source |-> StringValue(FpPath), Content |-> StringNull,
                                   Destination |-> StringValue(<<2>>)]>>),
           fs |-> FpPath :> r] :
            r \in {[ok |-> FALSE, content |-> <<>>]}
                  \cup {[ok |-> TRUE, content |-> s] : s \in FpStrings}}

FpTriggerMaps ==
    {MapNull} \cup
    {MapValue(f) : f \in UNION {[K -> FpValues] :
                                  K \in {{}, {<<1>>}, {<<2>>}, {<<1>>, <<1, 2>>},
                                         {<<2>>, <<1, 2>>}}}}

FpInputs ==
    {[done |-> FALSE,
      plan |-> [ID |-> StringUnknown, VMID |-> StringValue(v), Files |-> fc.files,
                Commands |-> cl, Triggers |-> t],
      fs |-> fc.fs, e |-> e] :
        v \in FpVMIDs, fc \in FpFileCases,
        cl \in {ListNull} \cup {ListValue(s) : s \in SeqsUpTo(FpCommands, 2)},
        t \in FpTriggerMaps, e \in {1, 2}}

\* the e-th enumeration of the trigger keys (there are at most two keys)
FpEnum(t, e) ==
    LET E == Enumerations(DOMAIN t.elems)
        first == CHOOSE x \in E : x = SortStrings(x)
    IN IF e = 1 \/ Cardinality(E) = 1 THEN first
       ELSE CHOOSE x \in E : x # first

InitFp ==
    /\ op = "none"
    /\ pc = "idle"
    /\ req = [Plan |-> NullModel, State |-> NullModel]
    /\ i = 0
    /\ log = <<>>
    /\ inflight = NoInflight
    /\ diags = <<>>
    /\ respState = Unset
    /\ tflogs = {}
    /\ deferred = NoDeferred
    /\ keyFiles = {}
    /\ tfstate = Unset
    /\ planned = NoPlanned
    /\ OthersIdle
    /\ \E x \in FpInputs :
        /\ x.e = 1 \/ Cardinality(DOMAIN x.plan.Triggers.elems) = 2
        /\ fp = [done |-> FALSE, plan |-> x.plan, fs |-> x.fs,
                 enum |-> FpEnum(x.plan.Triggers, x.e), id |-> <<>>]

\* plan.ID = types.StringValue(r.computeID(ctx, plan))
ComputeID ==
    /\ ~fp.done
    /\ fp' = [fp EXCEPT !.done = TRUE, !.id = computeID(fp.plan, fp.fs, fp.enum)]
    /\ UNCHANGED <<handlerVars, keyFiles, tfstate, planned, otherVars>>

NextFp == ComputeID

SpecFp == InitFp /\ [][NextFp]_vars

\* ----------------------------------------------------------------- claims
IsUploadCall(c) == c.call \in {"UploadFile", "WriteFile"}
Uploads == SelectSeq(log, IsUploadCall)
IsExecCall(c) == c.call = "Exec"
Execs == SelectSeq(log, IsExecCall)
CommandStarted == Len(Execs) > 0 \/ inflight.call = "Exec"
SessionOpened ==
    \E k \in 1..Len(log) : log[k].call = "NewSSHClient" /\ log[k].ok

\* C1: in a provisioning run (Create or Update) a command is executed only
\* after every declared file has been uploaded successfully, in declared
\* order; after a failed upload no command is executed.
C1_FilesBeforeCommands ==
    (op \in ProvisionHandlers /\ CommandStarted) =>
        /\ Len(Uploads) = Len(files)
        /\ \A k \in 1..Len(Uploads) : Uploads[k].pos = k /\ Uploads[k].ok

\* C2: the commands of a provisioning run execute in declared order, one at
\* a time; when the command at position k fails, no later command is
\* executed, the run is reported as failed and the error names position k.
C2_CommandsStopAtFirstFailure ==
    op \in ProvisionHandlers =>
        /\ \A k \in 1..Len(Execs) : Execs[k].pos = k
        /\ inflight.call = "Exec" =>
              /\ inflight.pos = Len(Execs) + 1
              /\ \A k \in 1..Len(Execs) : Execs[k].ok
        /\ \A k \in 1..Len(Execs) :
              ~Execs[k].ok =>
                  /\ k = Len(Execs)
                  /\ inflight = NoInflight
                  /\ pc = "returned"
                  /\ respState = Unset
                  /\ diags = <<Error("Command failed", k)>>

\* a run of three commands whose second command failed
C2_Witness ==
    /\ op \in ProvisionHandlers
    /\ pc = "returned"
    /\ Len(commands) = 3
    /\ Len(Execs) = 2
    /\ Execs[1].ok /\ ~Execs[2].ok

FlushAttemptFinished ==
    /\ inflight = NoInflight
    /\ \/ \E k \in 1..Len(log) : log[k].call = "sync"
       \/ tflogs # {}
CommitIssued == \E k \in 1..Len(log) : log[k].call = "CommitVM"

\* C3: in every commit operation the remote commit call is issued only
\* after a pre-commit flush attempt has finished (completed, failed, or
\* skipped with a logged warning).
C3_FlushBeforeCommit ==
    (op \in CommitHandlers \cup CommitHandlersNoSync /\ CommitIssued) =>
        FlushAttemptFinished

BothSet(f) == HasSource(f) /\ HasContent(f)
NeitherSet(f) == IsNull(f.Source) /\ IsNull(f.Content)
ConfigError ==
    /\ Len(diags) = 1
    /\ diags[1].summary = "File block: either 'source' or 'content' must be specified"

\* C4: a provisioning declaration with a file entry that has both source
\* and content set fails with a configuration error, and no remote call
\* has been made when the error is reported.
C4_BothSetIsConfigError ==
    (/\ op \in ProvisionHandlers
     /\ pc = "returned"
     /\ \E k \in 1..Len(files) : BothSet(files[k])) =>
        ConfigError /\ log = <<>>

\* C5: a provisioning declaration with a file entry that has neither source
\* nor content is rejected with a configuration error before any remote
\* call, in Create and in Update; no earlier file has been uploaded.
C5_NeitherSetIsConfigError ==
    (/\ op \in ProvisionHandlers
     /\ pc = "returned"
     /\ \E k \in 1..Len(files) : NeitherSet(files[k])) =>
        ConfigError /\ log = <<>>

\* C10: when an operation that opened a transport session returns, the key
\* file the session wrote no longer exists, on every exit path.
C10_KeyFileRemovedOnReturn ==
    (pc = "returned" /\ SessionOpened) => KeyPath(vmID) \notin keyFiles

\* a provisioning run that opened a session and returned with an error
C10_Witness ==
    /\ op \in ProvisionHandlers
    /\ pc = "returned"
    /\ SessionOpened
    /\ HasError
    /\ KeyPath(vmID) \notin keyFiles

\* the declaration of a unit: what the operator writes, without the id
Differs(config, model) ==
    \/ config.Files # model.Files
    \/ config.Commands # model.Commands
    \/ config.Triggers # model.Triggers
IsRemoteWork(name) == name \in {"UploadFile", "WriteFile", "Exec"}
RemoteWorkDone ==
    \/ \E k \in 1..Len(log) : IsRemoteWork(log[k].call)
    \/ IsRemoteWork(inflight.call)

\* C6: when the planned vm_id, files, commands and triggers equal those
\* recorded in state, ModifyPlan forces no replacement and nothing is
\* planned to run; a handler that uploads or executes runs only for a unit
\* that is new or whose declaration differs; Read never uploads a file and
\* never executes a command.
C6_UnchangedNeverReExecuted ==
    /\ (/\ planned.action # "none"
        /\ planned.prior.set = "set"
        /\ SameDeclaration(planned.config, planned.prior.model)) =>
            /\ ModifyPlan(planned.prior, planned.config) = {}
            /\ planned.RequiresReplace = {}
            /\ planned.action = "noop"
    /\ op = "Read" => ~RemoteWorkDone
    /\ RemoteWorkDone =>
            /\ op \in ProvisionHandlers
            /\ planned.action \in {"create", "replace", "update"}
            /\ planned.prior.set = "set" =>
                    ~SameDeclaration(planned.config, planned.prior.model)

\* a recorded unit with a command and a trigger, planned again unchanged
C6_Witness ==
    /\ planned.action = "noop"
    /\ tfstate.set = "set"
    /\ SameDeclaration(planned.config, tfstate.model)
    /\ Len(tfstate.model.Commands.elems) > 0
    /\ tfstate.model.Triggers = MapValue(<<1>> :> StringValue(<<1>>))

\* C7: when the declared files, commands or trigger map differ from the
\* recorded ones, a run is planned (replacement or in-place update, never
\* nothing), the plan is finished only by a provisioning handler returning,
\* and that handler works from the first file to the last command: uploads
\* and commands happen at positions 1, 2, ... without a gap, commands only
\* after all files, and a run that succeeds has uploaded every declared file
\* and executed every declared command.
C7_DifferenceReRunsEverything ==
    /\ (/\ planned.action # "none"
        /\ planned.prior.set = "set"
        /\ Differs(planned.config, planned.prior.model)) =>
            /\ planned.action \in {"replace", "update"}
            /\ pc = "returned" => op \in ProvisionHandlers
    /\ op \in ProvisionHandlers =>
            /\ \A k \in 1..Len(Uploads) : Uploads[k].pos = k
            /\ \A k \in 1..Len(Execs) : Execs[k].pos = k
            /\ CommandStarted =>
                    /\ Len(Uploads) = Len(files)
                    /\ \A k \in 1..Len(Uploads) : Uploads[k].ok
            /\ (pc = "returned" /\ ~HasError) =>
                    /\ respState.set = "set"
                    /\ Len(Uploads) = Len(files)
                    /\ Len(Execs) = Len(commands)
                    /\ \A k \in 1..Len(Uploads) : Uploads[k].ok
                    /\ \A k \in 1..Len(Execs) : Execs[k].ok

\* a recorded unit whose declaration changed, replaced by a run that
\* uploaded two files and executed a command
C7_Witness ==
    /\ planned.action = "replace"
    /\ planned.prior.set = "set"
    /\ Differs(planned.config, planned.prior.model)
    /\ op = "Create"
    /\ pc = "returned"
    /\ ~HasError
    /\ Len(Uploads) = 2
    /\ Len(Execs) = 1

\* C8: computeID gives the same fingerprint for a declaration whatever the
\* order in which the range over the trigger map visits the keys.
C8_FingerprintIgnoresKeyOrder ==
    fp.done =>
        \A e \in Enumerations(DOMAIN fp.plan.Triggers.elems) :
            computeID(fp.plan, fp.fs, e) = fp.id

\* a fingerprint computed from a trigger map of two keys that the range
\* visited in descending order
C8_Witness ==
    /\ fp.done
    /\ Cardinality(DOMAIN fp.plan.Triggers.elems) = 2
    /\ fp.enum # SortStrings(fp.enum)

\* the declaration with the command at position k replaced by s
WithCommand(plan, k, s) ==
    [plan EXCEPT !.Commands = ListValue([plan.Commands.elems EXCEPT ![k] = s])]
\* the declaration with the value of trigger key k replaced by v
WithTrigger(plan, k, v) ==
    [plan EXCEPT !.Triggers = MapValue([plan.Triggers.elems EXCEPT ![k] = v])]
\* the declaration with the inline content of file j replaced by c
WithContent(plan, j, c) ==
    [plan EXCEPT !.Files =
        ListValue([plan.Files.elems EXCEPT ![j] = [@ EXCEPT !.Content = c]])]
\* the local files with the bytes of the readable file at path replaced by s
WithLocalFile(fs, path, s) ==
    [fs EXCEPT ![path] = [ok |-> TRUE, content |-> s]]

\* C9: a declaration that differs from the fingerprinted one in one command
\* string, in one trigger value, in one file's inline content, or in the
\* bytes of one readable source file, feeds a different byte stream to the
\* hash.  A trigger value or an inline content is a Terraform string value:
\* null and the empty string are two values.
C9_SingleChangeChangesFingerprint ==
    fp.done =>
        /\ \A k \in 1..Len(fp.plan.Commands.elems) :
             \A s \in FpCommands \cup FpStrings :
                s # fp.plan.Commands.elems[k] =>
                    computeID(WithCommand(fp.plan, k, s), fp.fs, fp.enum) # fp.id
        /\ \A k \in DOMAIN fp.plan.Triggers.elems :
             \A v \in FpValues :
                v # fp.plan.Triggers.elems[k] =>
                    computeID(WithTrigger(fp.plan, k, v), fp.fs, fp.enum) # fp.id
        /\ \A j \in 1..Len(fp.plan.Files.elems) :
             \A c \in FpValues :
                c # fp.plan.Files.elems[j].Content =>
                    computeID(WithContent(fp.plan, j, c), fp.fs, fp.enum) # fp.id
        /\ \A path \in DOMAIN fp.fs :
             \A s \in FpStrings :
                (fp.fs[path].ok /\ s # fp.fs[path].content) =>
                    computeID(fp.plan, WithLocalFile(fp.fs, path, s), fp.enum) # fp.id

\* ------------------------------------------- sessions running side by side
\* the handler variables at rest, for the specifications that do not run
\* the vers_provision and vers_vm_commit handlers step by step
Quiet ==
    /\ op = "none"
    /\ pc = "idle"
    /\ req = [Plan |-> NullModel, State |-> NullModel]
    /\ i = 0
    /\ log = <<>>
    /\ inflight = NoInflight
    /\ diags = <<>>
    /\ respState = Unset
    /\ tflogs = {}
    /\ deferred = NoDeferred
    /\ tfstate = Unset
    /\ planned = NoPlanned
    /\ fp = NoFp

\* SpecConc: two operations on two different VMs, each opening a session
\* with NewSSHClient, running commands over it and cleaning up, interleaved
\* in any order (the engine runs independent resources in parallel).
Procs == {1, 2}
Ones(n) == [k \in 1..n |-> 1]
\* VM ids: two that agree on their first KeyPrefixLen bytes, and a short one
ConcVMIDs == {Ones(KeyPrefixLen) \o <<1>>, Ones(KeyPrefixLen) \o <<2>>, <<2>>}
NoKeys == [path \in {KeyPath(v) : v \in ConcVMIDs} |-> <<>>]

InitConc ==
    /\ Quiet
    /\ keyFiles = {}
    /\ world = Off /\ pipe = Off /\ xfer = Off
    /\ wait = Off /\ exec = Off /\ twin = Off
    /\ \E a \in ConcVMIDs, b \in ConcVMIDs, n \in [Procs -> 1..MaxConcExecs] :
        /\ a # b
        /\ sess = [VMID |-> (1 :> a) @@ (2 :> b),
                   pc |-> [p \in Procs |-> "start"],
                   left |-> n,
                   keyOK |-> [p \in Procs |-> TRUE],
                   content |-> NoKeys]

\* NewSSHClient(vmID, privateKey): os.WriteFile(keyPath, privateKey) creates
\* the file or replaces what it holds
ConcNewSSHClient(p) ==
    /\ sess.pc[p] = "start"
    /\ keyFiles' = keyFiles \cup {KeyPath(sess.VMID[p])}
    /\ sess' = [sess EXCEPT !.pc[p] = "open",
                            !.content[KeyPath(sess.VMID[p])] = sess.VMID[p]]
    /\ UNCHANGED <<handlerVars, tfstate, planned, fp, world, pipe, xfer,
                   wait, exec, twin>>

\* ssh -i s.KeyPath ...: the command authenticates with whatever the key
\* file holds when ssh starts
ConcExec(p) ==
    /\ sess.pc[p] = "open"
    /\ sess.left[p] > 0
    /\ sess' = [sess EXCEPT
                 !.left[p] = @ - 1,
                 !.keyOK[p] = /\ KeyPath(sess.VMID[p]) \in keyFiles
                              /\ sess.content[KeyPath(sess.VMID[p])] = sess.VMID[p]]
    /\ UNCHANGED <<handlerVars, keyFiles, tfstate, planned, fp, world, pipe, xfer,
                   wait, exec, twin>>

\* defer ssh.Cleanup(): runs when the handler returns, after its last
\* command or after a failed one
ConcCleanup(p) ==
    /\ sess.pc[p] = "open"
    /\ keyFiles' = Cleanup(keyFiles, KeyPath(sess.VMID[p]))
    /\ sess' = [sess EXCEPT !.pc[p] = "done"]
    /\ UNCHANGED <<handlerVars, tfstate, planned, fp, world, pipe, xfer,
                   wait, exec, twin>>

NextConc ==
    \E p \in Procs : ConcNewSSHClient(p) \/ ConcExec(p) \/ ConcCleanup(p)

SpecConc == InitConc /\ [][NextConc]_vars

\* C11: the sessions of two operations on different VMs do not touch each
\* other's key file: as long as a session is open its key file exists and
\* holds the key of its own VM, and every command it ran found it so.
C11_SessionsShareNoKeyFile ==
    \A p \in Procs :
        /\ sess.keyOK[p]
        /\ sess.pc[p] = "open" =>
              /\ KeyPath(sess.VMID[p]) \in keyFiles
              /\ sess.content[KeyPath(sess.VMID[p])] = sess.VMID[p]

IsCommitCall(c) == c.call = "CommitVM"
CommitCalls == SelectSeq(log, IsCommitCall)

\* ------------------------------------------------ the resources of SpecRes
\* SpecRes: the handlers of all five resource types called in any order on
\* one record of each type, against one remote.
VMKinds == {"vm", "restore", "branch"}
ResKinds == VMKinds \cup {"commit", "provision"}

\* the handler names of the three types that own a VM
VMOps ==
    [vm |-> [Create |-> "VMCreate", Read |-> "VMRead",
             Update |-> "VMUpdate", Delete |-> "VMDelete"],
     restore |-> [Create |-> "VMRestoreCreate", Read |-> "VMRestoreRead",
                  Update |-> "VMRestoreUpdate", Delete |-> "VMRestoreDelete"],
     branch |-> [Create |-> "VMBranchCreate", Read |-> "VMBranchRead",
                 Update |-> "VMBranchUpdate", Delete |-> "VMBranchDelete"]]
VMCreateOps == {VMOps[k].Create : k \in VMKinds}
VMReadOps == {VMOps[k].Read : k \in VMKinds}
VMUpdateOps == {VMOps[k].Update : k \in VMKinds}
VMDeleteOps == {VMOps[k].Delete : k \in VMKinds}

\* the resource type a handler belongs to
KindOfOp(o) ==
    IF o \in {"Create", "Update", "Read", "Delete"} THEN "provision"
    ELSE IF o \in CommitHandlers \cup {"VMCommitRead", "VMCommitDelete"} THEN "commit"
    ELSE CHOOSE k \in VMKinds : o \in {VMOps[k][h] : h \in DOMAIN VMOps[k]}

\* VMResourceModel, VMRestoreResourceModel and VMBranchResourceModel in one
\* shape: the attribute a type does not have is null (vers_vm's sizes are
\* left out: no handler but Create reads them)
NullVMModel ==
    [ID |-> StringNull, CommitID |-> StringNull, SourceVMID |-> StringNull,
     WaitBoot |-> FALSE, State |-> StringNull, SSHHost |-> StringNull,
     SSHPrivateKey |-> StringNull, CreatedAt |-> StringNull]

\* a plan for Create: the computed attributes are unknown
VMCreatePlan(kind, ref, waitBoot) ==
    [ID |-> StringUnknown,
     CommitID |-> IF kind = "restore" THEN StringValue(ref) ELSE StringNull,
     SourceVMID |-> IF kind = "branch" THEN StringValue(ref) ELSE StringNull,
     WaitBoot |-> waitBoot,
     State |-> StringUnknown, SSHHost |-> StringUnknown,
     SSHPrivateKey |-> StringUnknown, CreatedAt |-> StringUnknown]

\* fmt.Sprintf("%s.vm.vers.sh", vmID)
SSHHostOf(id) == id \o <<0>>
\* what the remote reports for a VM: created_at and the private key are
\* fixed per VM
CreatedAtOf(id) == <<4>> \o id
PrivateKeyOf(id) == <<5>> \o id

\* the state strings: "running" as the remote reports it, and the literal
\* "unknown" the handlers record when GetVM fails
RunningState == <<6>>
UnknownState == <<7>>

Warning(summary) == [severity |-> "warning", summary |-> summary, pos |-> 0]
\* variant of Removed in which the resource is not removed
RemovedAsKept == [set |-> "unset", model |-> NullModel]
\* resp.State.RemoveResource(ctx)
Removed == [set |-> "removed", model |-> NullModel]
NoRecords == [k \in ResKinds |-> Unset]

InitRes ==
    /\ Quiet
    /\ keyFiles = {}
    /\ sess = Off /\ pipe = Off /\ xfer = Off
    /\ wait = Off /\ exec = Off /\ twin = Off
    /\ world = [on |-> TRUE, vms |-> {}, images |-> {}, nvm |-> 0, nimg |-> 0,
                nops |-> 0, rec |-> NoRecords]

\* Terraform calls a handler of vers_vm, vers_vm_restore or vers_vm_branch
InvokeVM(o, first, plan, state) ==
    /\ op = "none"
    /\ op' = o
    /\ pc' = first
    /\ req' = [Plan |-> plan, State |-> state]
    /\ UNCHANGED <<i, log, inflight, diags, respState, tflogs, deferred,
                   keyFiles, tfstate, planned, fp, otherVars>>

\* the summaries of the diagnostics of vm.go, vm_restore.go and vm_branch.go
Summary ==
    [vm |-> [primary |-> "Failed to create VM",
             getvm |-> "Failed to read VM state after creation",
             sshkey |-> "Failed to fetch SSH key",
             read |-> "Failed to read VM",
             delete |-> "Failed to delete VM"],
     restore |-> [primary |-> "Failed to restore VM from commit",
                  getvm |-> "Failed to read restored VM state",
                  sshkey |-> "Failed to fetch SSH key for restored VM",
                  read |-> "Failed to read restored VM",
                  delete |-> "Failed to delete restored VM"],
     branch |-> [primary |-> "Failed to branch VM",
                 getvm |-> "Failed to read branched VM state",
                 sshkey |-> "Failed to fetch SSH key for branched VM",
                 read |-> "Failed to read branched VM",
                 delete |-> "Failed to delete branched VM"]]
PrimaryCall == [vm |-> "CreateVM", restore |-> "RestoreVM", branch |-> "BranchVM"]

\* whether the remote can serve the first call of Create: a restore needs
\* its image, a branch its source VM
PrimaryPossible(kind, plan) ==
    CASE kind = "vm" -> TRUE
      [] kind = "restore" -> ValueString(plan.CommitID) \in world.images
      [] kind = "branch" -> ValueString(plan.SourceVMID) \in world.vms

\* Create, first call: r.client.CreateVM / RestoreVM / BranchVM. On success
\* the remote has a new VM and plan.ID and plan.SSHHost are set; on failure
\* the handler adds an error and returns.
VMCreatePrimary ==
    /\ op \in VMCreateOps
    /\ pc = "Primary"
    /\ LET kind == KindOfOp(op)
           id == RemoteVMID(world.nvm + 1)
       IN \E ok \in {TRUE, FALSE} :
            /\ ok => PrimaryPossible(kind, req.Plan)
            /\ log' = Append(log, Call(PrimaryCall[kind], 0, ok) @@ [ret |-> id])
            /\ IF ok
               THEN /\ world' = [world EXCEPT !.vms = @ \cup {id}, !.nvm = @ + 1]
                    /\ req' = [req EXCEPT !.Plan.ID = StringValue(id),
                                          !.Plan.SSHHost = StringValue(SSHHostOf(id))]
                    /\ pc' = IF kind = "restore" THEN "WaitForBoot" ELSE "GetVM"
                    /\ UNCHANGED <<diags, deferred, keyFiles>>
               ELSE /\ ReturnError(Summary[kind].primary, 0)
                    /\ UNCHANGED <<world, req>>
    /\ UNCHANGED <<op, i, inflight, respState, tflogs, tfstate, planned, fp,
                   sess, pipe, xfer,
                   wait, exec, twin>>

\* vers_vm_restore Create: r.client.WaitForBoot(vmID, 3*time.Minute), one
\* poll at a time. A poll is GetVM: its error ends the wait, a VM that is
\* found and running ends it with nil, a VM that is booting or not in the
\* list leads to the sleep. An error of WaitForBoot becomes a warning.
\* inflight.pos counts the polls that did not end the wait.
VMRestoreWaitForBoot ==
    /\ op = "VMRestoreCreate"
    /\ pc = "WaitForBoot"
    /\ \E out \in GetVMOutcomes(ValueString(req.Plan.ID)), running \in BOOLEAN :
        /\ (out # "found") => ~running
        /\ IF out = "error" \/ running
           THEN /\ log' = Append(log, Call("WaitForBoot", 0, running))
                /\ diags' = IF running THEN diags
                            ELSE Append(diags,
                                   Warning("VM restored but may not be fully booted"))
                /\ inflight' = NoInflight
                /\ pc' = "GetVM"
           ELSE /\ inflight' = [call |-> "WaitForBoot", pos |-> inflight.pos + 1]
                /\ pc' = "BootSleep"
                /\ UNCHANGED <<log, diags>>
    /\ UNCHANGED <<op, req, i, respState, tflogs, deferred, keyFiles,
                   tfstate, planned, fp, otherVars>>

\* time.Sleep(2 * time.Second), then the loop condition
\* time.Now().Before(deadline): the next poll, or WaitForBoot returns the
\* timeout error, which becomes a warning. Time is not counted here
\* (SpecBoot counts it): the deadline has passed after MaxPolls polls at
\* the latest.
VMRestoreBootSleep ==
    /\ op = "VMRestoreCreate"
    /\ pc = "BootSleep"
    /\ \E before \in BOOLEAN :
        /\ before => inflight.pos < MaxPolls
        /\ IF before
           THEN /\ pc' = "WaitForBoot"
                /\ UNCHANGED <<log, diags, inflight>>
           ELSE /\ log' = Append(log, Call("WaitForBoot", 0, FALSE))
                /\ diags' = Append(diags,
                              Warning("VM restored but may not be fully booted"))
                /\ inflight' = NoInflight
                /\ pc' = "GetVM"
    /\ UNCHANGED <<op, req, i, respState, tflogs, deferred, keyFiles,
                   tfstate, planned, fp, otherVars>>

\* variant of VMCreateGetVM in which a failed state fetch is an error that
\* ends Create
VMCreateGetVMFailing ==
    /\ op \in VMCreateOps
    /\ pc = "GetVM"
    /\ LET kind == KindOfOp(op)
           id == ValueString(req.Plan.ID)
       IN \E out \in GetVMOutcomes(id) :
            /\ log' = Append(log, Call("GetVM", 0, out # "error"))
            /\ diags' = IF out = "error"
                        THEN Append(diags, Error(Summary[kind].getvm, 0))
                        ELSE diags
            /\ req' = CASE out = "error" -> req
                        [] out = "found" ->
                             [req EXCEPT !.Plan.State = StringValue(RunningState),
                                         !.Plan.CreatedAt = StringValue(CreatedAtOf(id))]
                        [] out = "absent" -> req
            /\ pc' = IF out = "error" THEN "returned" ELSE "GetSSHKey"
    /\ UNCHANGED <<op, i, inflight, respState, tflogs, deferred, keyFiles,
                   tfstate, planned, fp, otherVars>>

\* Create: vm, err := r.client.GetVM(vmID). An error becomes a warning and
\* state "unknown"; a VM that is found gives state and created_at; a VM
\* that is not in the list (nil, nil) leaves both as planned.
VMCreateGetVM ==
    /\ op \in VMCreateOps
    /\ pc = "GetVM"
    /\ LET kind == KindOfOp(op)
           id == ValueString(req.Plan.ID)
       IN \E out \in GetVMOutcomes(id) :
            /\ log' = Append(log, Call("GetVM", 0, out # "error"))
            /\ diags' = IF out = "error"
                        THEN Append(diags, Warning(Summary[kind].getvm))
                        ELSE diags
            /\ req' = CASE out = "error" ->
                             [req EXCEPT !.Plan.State = StringValue(UnknownState)]
                        [] out = "found" ->
                             [req EXCEPT !.Plan.State = StringValue(RunningState),
                                         !.Plan.CreatedAt = StringValue(CreatedAtOf(id))]
                        [] out = "absent" -> req
    /\ pc' = "GetSSHKey"
    /\ UNCHANGED <<op, i, inflight, respState, tflogs, deferred, keyFiles,
                   tfstate, planned, fp, otherVars>>

\* Create: sshKey, err := r.client.GetSSHKey(vmID): an error becomes a
\* warning and an empty key; then resp.State.Set(ctx, &plan)
VMCreateGetSSHKey ==
    /\ op \in VMCreateOps
    /\ pc = "GetSSHKey"
    /\ LET kind == KindOfOp(op)
           id == ValueString(req.Plan.ID)
       IN \E ok \in {TRUE, FALSE} :
            /\ ok => id \in world.vms
            /\ log' = Append(log, Call("GetSSHKey", 0, ok))
            /\ diags' = IF ok THEN diags
                        ELSE Append(diags, Warning(Summary[kind].sshkey))
            /\ req' = [req EXCEPT !.Plan.SSHPrivateKey =
                          IF ok THEN StringValue(PrivateKeyOf(id))
                          ELSE StringValue(<<>>)]
            /\ respState' = [set |-> "set", model |-> req'.Plan]
    /\ Return
    /\ UNCHANGED <<op, i, inflight, tflogs, tfstate, planned, fp, otherVars>>

\* Read of vers_vm, vers_vm_restore, vers_vm_branch:
\* vm, err := r.client.GetVM(state.ID): an error is reported and the state
\* is left alone; a VM that is not in the list removes the resource; a VM
\* that is found refreshes state, created_at and ssh_host
VMRead ==
    /\ op \in VMReadOps
    /\ pc = "GetVM"
    /\ LET kind == KindOfOp(op)
           id == ValueString(req.State.ID)
       IN \E out \in GetVMOutcomes(id) :
            /\ log' = Append(log, Call("GetVM", 0, out # "error"))
            /\ diags' = IF out = "error"
                        THEN Append(diags, Error(Summary[kind].read, 0))
                        ELSE diags
            /\ respState' =
                 CASE out = "error" -> respState
                   [] out = "absent" -> Removed
                   [] out = "found" ->
                        [set |-> "set",
                         model |-> [req.State EXCEPT
                                      !.State = StringValue(RunningState),
                                      !.CreatedAt = StringValue(CreatedAtOf(id)),
                                      !.SSHHost = StringValue(SSHHostOf(id))]]
    /\ Return
    /\ UNCHANGED <<op, req, i, inflight, tflogs, tfstate, planned, fp, otherVars>>

\* Update makes no call. VMResource.Update sets the plan with the computed
\* attributes of the state; the other two set the state they were given.
VMUpdate ==
    /\ op \in VMUpdateOps
    /\ pc = "Set"
    /\ respState' =
         [set |-> "set",
          model |-> IF op = "VMUpdate"
                    THEN [req.Plan EXCEPT !.ID = req.State.ID,
                                          !.SSHHost = req.State.SSHHost,
                                          !.SSHPrivateKey = req.State.SSHPrivateKey,
                                          !.State = req.State.State,
                                          !.CreatedAt = req.State.CreatedAt]
                    ELSE req.State]
    /\ Return
    /\ UNCHANGED <<op, req, i, log, inflight, diags, tflogs, tfstate, planned,
                   fp, otherVars>>

\* variant of DeleteTarget that takes the VM a branch was made from
DeleteTargetSource(state) ==
    IF IsNull(state.SourceVMID) THEN ValueString(state.ID)
    ELSE ValueString(state.SourceVMID)

\* the argument of DeleteVM: state.ID.ValueString()
DeleteTarget(state) == ValueString(state.ID)

\* Delete of the three types: r.client.DeleteVM(state.ID); when the call
\* succeeds the remote no longer has the VM and the record is dropped
VMDelete ==
    /\ op \in VMDeleteOps
    /\ pc = "DeleteVM"
    /\ LET kind == KindOfOp(op)
           id == DeleteTarget(req.State)
       IN \E ok \in {TRUE, FALSE} :
            /\ log' = Append(log, Call("DeleteVM", 0, ok) @@ [arg |-> id])
            /\ IF ok
               THEN /\ world' = [world EXCEPT !.vms = @ \ {id}]
                    /\ respState' = Removed
                    /\ UNCHANGED diags
               ELSE /\ diags' = Append(diags, Error(Summary[kind].delete, 0))
                    /\ UNCHANGED <<world, respState>>
    /\ Return
    /\ UNCHANGED <<op, req, i, inflight, tflogs, tfstate, planned, fp,
                   sess, pipe, xfer,
                   wait, exec, twin>>

\* variant of LocalOnly in which VMCommitResource.Delete asks the remote to
\* delete the image it recorded
LocalOnlyDeletingImage ==
    /\ op \in {"VMCommitRead", "VMCommitDelete", "Delete"}
    /\ pc = "Set"
    /\ respState' = IF op = "VMCommitRead"
                    THEN [set |-> "set", model |-> req.State]
                    ELSE Removed
    /\ Return
    /\ log' = IF op = "VMCommitDelete"
              THEN Append(log, Call("DeleteCommit", 0, TRUE))
              ELSE log
    /\ world' = IF op = "VMCommitDelete" /\ world.on
                THEN [world EXCEPT
                        !.images = @ \ {ValueString(req.State.CommitID)}]
                ELSE world
    /\ UNCHANGED <<op, req, i, inflight, diags, tflogs, tfstate, planned,
                   fp, sess, pipe, xfer, wait, exec, twin>>

\* VMCommitResource.Read sets the state it was given; VMCommitResource.Delete
\* and ProvisionResource.Delete only drop the record. None makes a call.
LocalOnly ==
    /\ op \in {"VMCommitRead", "VMCommitDelete", "Delete"}
    /\ pc = "Set"
    /\ respState' = IF op = "VMCommitRead"
                    THEN [set |-> "set", model |-> req.State]
                    ELSE Removed
    /\ Return
    /\ UNCHANGED <<op, req, i, log, inflight, diags, tflogs, tfstate, planned,
                   fp, otherVars>>

\* a VM is deleted outside of Terraform
OutOfBandDelete ==
    /\ \E id \in world.vms : world' = [world EXCEPT !.vms = @ \ {id}]
    /\ UNCHANGED <<handlerVars, keyFiles, tfstate, planned, fp, sess, pipe, xfer,
                   wait, exec, twin>>

\* ------------------------------------------------------- SpecRes: engine
\* The records are wired as in the README: vers_vm_commit commits the VM of
\* vers_vm, vers_vm_restore restores from the commit_id of vers_vm_commit,
\* vers_vm_branch branches the VM of vers_vm, vers_provision provisions it.
\* Terraform starts at most MaxOps operations (world.nops counts the ones
\* that have returned).
RootVMs ==
    IF world.rec["vm"].set = "set"
    THEN {ValueString(world.rec["vm"].model.ID)} ELSE {}

\* the inputs a Create may be given
CreateRefs(kind) ==
    CASE kind = "vm" -> {<<>>}
      [] kind = "restore" ->
           IF world.rec["commit"].set = "set"
           THEN {ValueString(world.rec["commit"].model.CommitID)} ELSE {}
      [] kind = "branch" -> RootVMs

ResCreate ==
    /\ world.nops < MaxOps
    /\ \E kind \in VMKinds :
        /\ world.rec[kind].set = "unset"
        /\ world.nvm < MaxVMs
        /\ \E ref \in CreateRefs(kind) :
            InvokeVM(VMOps[kind].Create, "Primary",
                     VMCreatePlan(kind, ref, TRUE), NullVMModel)

ResRead ==
    /\ world.nops < MaxOps
    /\ \E kind \in VMKinds :
        /\ world.rec[kind].set = "set"
        /\ InvokeVM(VMOps[kind].Read, "GetVM", NullVMModel, world.rec[kind].model)

\* an in-place update: the computed attributes without UseStateForUnknown
\* are unknown in the plan, id is taken from the state
ResUpdate ==
    /\ world.nops < MaxOps
    /\ \E kind \in VMKinds :
        /\ world.rec[kind].set = "set"
        /\ InvokeVM(VMOps[kind].Update, "Set",
                    [world.rec[kind].model EXCEPT
                        !.State = StringUnknown, !.SSHHost = StringUnknown,
                        !.SSHPrivateKey = StringUnknown,
                        !.CreatedAt = StringUnknown],
                    world.rec[kind].model)

ResDelete ==
    /\ world.nops < MaxOps
    /\ \E kind \in VMKinds :
        /\ world.rec[kind].set = "set"
        /\ InvokeVM(VMOps[kind].Delete, "DeleteVM", NullVMModel,
                    world.rec[kind].model)

\* vers_vm_commit: Create when there is no record, Update when there is one
ResCommit ==
    /\ world.nops < MaxOps
    /\ world.nimg < MaxImages
    /\ \E v \in RootVMs :
        InvokeCommit(IF world.rec["commit"].set = "set"
                     THEN "VMCommitUpdate" ELSE "VMCommitCreate",
                     [ID |-> IF world.rec["commit"].set = "set"
                             THEN world.rec["commit"].model.ID ELSE StringUnknown,
                      VMID |-> StringValue(v), CommitID |-> StringUnknown,
                      KeepPaused |-> FALSE, Triggers |-> MapNull])

ResCommitLocal ==
    /\ world.nops < MaxOps
    /\ world.rec["commit"].set = "set"
    /\ \E o \in {"VMCommitRead", "VMCommitDelete"} :
        InvokeVM(o, "Set", NullCommitModel, world.rec["commit"].model)

\* vers_provision: Create when there is no record, Update when there is one
ResProvision ==
    /\ world.nops < MaxOps
    /\ \E v \in RootVMs :
        InvokeProvision(IF world.rec["provision"].set = "set"
                        THEN "Update" ELSE "Create",
                        [ID |-> IF world.rec["provision"].set = "set"
                                THEN world.rec["provision"].model.ID
                                ELSE StringUnknown,
                         VMID |-> StringValue(v),
                         Files |-> ListValue(<<InlineFile>>),
                         Commands |-> ListValue(<< <<1>> >>),
                         Triggers |-> MapNull])

ResProvisionRead ==
    /\ world.nops < MaxOps
    /\ world.rec["provision"].set = "set"
    /\ InvokeRead(world.rec["provision"].model)

ResProvisionDelete ==
    /\ world.nops < MaxOps
    /\ world.rec["provision"].set = "set"
    /\ InvokeVM("Delete", "Set", NullModel, world.rec["provision"].model)

\* what the record keeps of a response: resp.State.Set(ctx, &plan) stores
\* the whole model, and Terraform hands it back as req.State
Recorded(resp) == resp

\* the engine takes the response: a handler that reported an error or set
\* nothing leaves the record as it was, a removed resource has no record
ResFinish ==
    /\ pc = "returned"
    /\ world' = [world EXCEPT !.nops = @ + 1, !.rec[KindOfOp(op)] =
                    IF HasError \/ respState.set = "unset" THEN @
                    ELSE IF respState.set = "removed" THEN Unset
                    ELSE Recorded(respState)]
    /\ op' = "none"
    /\ pc' = "idle"
    /\ req' = [Plan |-> NullModel, State |-> NullModel]
    /\ i' = 0
    /\ log' = <<>>
    /\ diags' = <<>>
    /\ respState' = Unset
    /\ tflogs' = {}
    /\ UNCHANGED <<inflight, deferred, keyFiles, tfstate, planned, fp,
                   sess, pipe, xfer,
                   wait, exec, twin>>

NextRes ==
    \/ ResCreate
    \/ ResRead
    \/ ResUpdate
    \/ ResDelete
    \/ ResCommit
    \/ ResCommitLocal
    \/ ResProvision
    \/ ResProvisionRead
    \/ ResProvisionDelete
    \/ VMCreatePrimary
    \/ VMRestoreWaitForBoot
    \/ VMRestoreBootSleep
    \/ VMCreateGetVM
    \/ VMCreateGetSSHKey
    \/ VMRead
    \/ VMUpdate
    \/ VMDelete
    \/ LocalOnly
    \/ OutOfBandDelete
    \/ SyncGetSSHKey
    \/ SyncNewSSHClient
    \/ SyncExecStart
    \/ SyncExecWait
    \/ CommitVM
    \/ ReadGetVM
    \/ ProvGetSSHKey
    \/ ProvNewSSHClient
    \/ ProvWaitReachable
    \/ ProvReachSleep
    \/ CreateFile
    \/ UpdateFile
    \/ ProvFileMkdir
    \/ ProvFileTransfer
    \/ ProvExecStart
    \/ ProvExecWait
    \/ ProvSetState
    \/ ResFinish

SpecRes == InitRes /\ [][NextRes]_vars

\* ------------------------------------------------ claims about the remote
\* the handler that just returned, seen from the step that made it return
Returns == pc # "returned" /\ pc' = "returned"
LastCall == log[Len(log)]

\* C13: every commit operation that succeeds issued exactly one remote
\* commit call and records the id that call returned as id and as
\* commit_id; a re-commit of the same VM (Update) records an id different
\* from the one recorded before, and both images exist on the remote.
C13_CommitRecordsFreshImage ==
    (op \in CommitHandlers /\ pc = "returned" /\ ~HasError) =>
        /\ Len(CommitCalls) = 1
        /\ CommitCalls[1].ok
        /\ respState.set = "set"
        /\ respState.model.ID = StringValue(CommitCalls[1].ret)
        /\ respState.model.CommitID = StringValue(CommitCalls[1].ret)
        /\ CommitCalls[1].ret \in world.images
        /\ op = "VMCommitUpdate" =>
              /\ world.rec["commit"].model.CommitID = req.Plan.ID
              /\ ValueString(req.Plan.ID) \in world.images
              /\ ValueString(req.Plan.ID) # CommitCalls[1].ret

\* the second commit of the same VM has succeeded
C13_Witness ==
    /\ op = "VMCommitUpdate"
    /\ pc = "returned"
    /\ ~HasError
    /\ respState.set = "set"
    /\ respState.model.VMID = world.rec["commit"].model.VMID
    /\ Cardinality(world.images) = 2

\* C14: the set of remote images only grows, whatever handler of whatever
\* resource type runs: a re-commit leaves the image recorded before in
\* place, and Delete of vers_vm_commit drops the record without any remote
\* call.
C14_ImagesOnlyGrow ==
    [][/\ world.images \subseteq world.images'
       /\ (op = "VMCommitUpdate" /\ Returns /\ ~HasError') =>
             /\ req.Plan.ID = world.rec["commit"].model.CommitID
             /\ ValueString(req.Plan.ID) \in world.images'
       /\ op' = "VMCommitDelete" => log' = <<>>
       /\ (op = "VMCommitDelete" /\ Returns) =>
             /\ respState' = Removed
             /\ diags' = <<>>
             /\ world' = world
       /\ (op = "VMCommitDelete" /\ pc = "returned" /\ op' = "none") =>
             /\ world.rec["commit"].set = "set"
             /\ world'.rec["commit"].set = "unset"
             /\ world'.images = world.images
             /\ ValueString(world.rec["commit"].model.CommitID) \in world'.images
      ]_vars

\* the vers_vm_commit resource has been destroyed after a re-commit; both
\* images are still on the remote
C14_Witness ==
    /\ op = "VMCommitDelete"
    /\ pc = "returned"
    /\ respState = Removed
    /\ log = <<>>
    /\ Cardinality(world.images) = 2

\* the advisory calls of vers_vm_restore Create and the warning each gives
\* when it fails
RestoreWarning ==
    [WaitForBoot |-> "VM restored but may not be fully booted",
     GetVM |-> Summary["restore"].getvm,
     GetSSHKey |-> Summary["restore"].sshkey]

\* C15: once RestoreVM has succeeded, Create of vers_vm_restore never
\* reports an error: a failed or timed out boot poll, a failed state fetch
\* and a failed key fetch each give a warning and nothing else, and the
\* handler ends with the new VM's id recorded in state.
C15_RestoreNeverFailsAfterRestoreVM ==
    (/\ op = "VMRestoreCreate"
     /\ \E k \in 1..Len(log) : log[k].call = "RestoreVM" /\ log[k].ok) =>
        /\ ~HasError
        /\ \A k \in 1..Len(log) :
              (log[k].call \in DOMAIN RestoreWarning /\ ~log[k].ok) =>
                  \E d \in 1..Len(diags) :
                      diags[d] = Warning(RestoreWarning[log[k].call])
        /\ \A d \in 1..Len(diags) :
              \E k \in 1..Len(log) :
                  /\ log[k].call \in DOMAIN RestoreWarning
                  /\ ~log[k].ok
                  /\ diags[d] = Warning(RestoreWarning[log[k].call])
        /\ pc = "returned" =>
              /\ respState.set = "set"
              /\ respState.model.ID = StringValue(log[1].ret)

\* a restore whose boot poll, state fetch and key fetch all failed has
\* returned without an error and with the new VM recorded
C15_Witness ==
    /\ op = "VMRestoreCreate"
    /\ pc = "returned"
    /\ log[1].call = "RestoreVM" /\ log[1].ok
    /\ \A c \in DOMAIN RestoreWarning :
          \E k \in 1..Len(log) : log[k].call = c /\ ~log[k].ok
    /\ Len(diags) = 3
    /\ ~HasError
    /\ respState.set = "set"
    /\ respState.model.ID = StringValue(log[1].ret)

\* C16: a VM leaves the remote through Terraform only in Delete of the
\* vers_vm, vers_vm_restore or vers_vm_branch record that holds its id; no
\* other handler, and no handler that failed before, issues DeleteVM.
C16_OnlyDeleteDeletesOwnVM ==
    [][/\ \A k \in 1..Len(log') :
            log'[k].call = "DeleteVM" =>
               /\ op' \in VMDeleteOps
               /\ Len(log') = 1
               /\ world'.rec[KindOfOp(op')].set = "set"
               /\ log'[k].arg = ValueString(world'.rec[KindOfOp(op')].model.ID)
       /\ \A id \in world.vms \ world.vms' :
            \/ op \in VMDeleteOps /\ Returns
                 /\ id = ValueString(world.rec[KindOfOp(op)].model.ID)
                 /\ world.vms' = world.vms \ {id}
                 /\ LastCall' = Call("DeleteVM", 0, TRUE) @@ [arg |-> id]
            \/ UNCHANGED <<handlerVars, keyFiles>> /\ world.vms' = world.vms \ {id}
      ]_vars

\* a branch has been deleted and the VM it was made from is still there
C16_Witness ==
    /\ op = "VMBranchDelete"
    /\ pc = "returned"
    /\ ~HasError
    /\ respState = Removed
    /\ ValueString(req.State.ID) \notin world.vms
    /\ ValueString(req.State.SourceVMID) \in world.vms

\* the VM a record stands for: vers_provision names it in vm_id, the
\* others in id
ReadOps == VMReadOps \cup {"Read"}
ReadTarget == IF op = "Read" THEN ValueString(req.State.VMID)
              ELSE ValueString(req.State.ID)

\* C17: Read of vers_vm, vers_vm_restore, vers_vm_branch and vers_provision
\* makes one list call; when the VM is not in the list the record is
\* removed without an error, when it is there the record is kept with the
\* same id, when the call fails an error is reported and the record kept.
C17_ReadFollowsRemote ==
    [][/\ (op \in ReadOps /\ Returns) =>
            /\ Len(log') = 1
            /\ LastCall'.call \in {"GetVM", "ListVMs"}
            /\ ~LastCall'.ok =>
                  /\ HasError'
                  /\ respState'.set = "unset"
            /\ (LastCall'.ok /\ ReadTarget \notin world.vms) =>
                  /\ diags' = <<>>
                  /\ respState'.set = "removed"
            /\ (LastCall'.ok /\ ReadTarget \in world.vms) =>
                  /\ diags' = <<>>
                  /\ respState'.set = "set"
                  /\ respState'.model.ID = req.State.ID
       /\ (op \in ReadOps /\ pc = "returned" /\ op' = "none") =>
            LET old == world.rec[KindOfOp(op)]
                new == world'.rec[KindOfOp(op)]
            IN /\ HasError => new = old
               /\ respState.set = "removed" => new.set = "unset"
               /\ respState.set = "set" =>
                     new.set = "set" /\ new.model.ID = old.model.ID
      ]_vars

\* Read of a vers_provision record whose VM was deleted outside Terraform
C17_Witness ==
    /\ op = "Read"
    /\ pc = "returned"
    /\ diags = <<>>
    /\ respState.set = "removed"
    /\ ValueString(req.State.VMID) \notin world.vms

\* C18: a provisioning run that fails records no fingerprint and issues
\* no call after the one that failed (nothing is undone); a fingerprint is
\* recorded only when every declared file has been uploaded and every
\* command has been run, each with success.
C18_FingerprintOnlyAfterFullSuccess ==
    op \in ProvisionHandlers =>
        /\ HasError =>
              /\ pc = "returned"
              /\ respState = Unset
              /\ \A k \in 1..(Len(log) - 1) : log[k].ok
        /\ respState.set = "set" =>
              /\ ~HasError
              /\ \A k \in 1..Len(log) : log[k].ok
              /\ Len(Uploads) = Len(files)
              /\ \A k \in 1..Len(files) : Uploads[k].pos = k
              /\ Len(Execs) = Len(commands)
              /\ \A k \in 1..Len(commands) : Execs[k].pos = k

\* ---------------------------------------------------- the layered pipeline
\* SpecPipe: the configuration of examples/layered-vms/main.tf, applied by
\* Terraform. Layer 1 is vers_vm + vers_provision + vers_vm_commit, a later
\* layer is vers_vm_restore (commit_id of the layer before) +
\* vers_provision + vers_vm_commit, and the workers are vers_vm_restore of
\* the last layer's commit_id. The resources are numbered in dependency
\* order: three per layer, then the workers.
Layers == 1..MaxLayers
PipeSize == 3 * MaxLayers + MaxWorkers
VMOf(L) == 3 * (L - 1) + 1
ProvOf(L) == 3 * (L - 1) + 2
CommitOf(L) == 3 * L
LayerOf(n) == IF n > 3 * MaxLayers THEN MaxLayers + 1 ELSE ((n - 1) \div 3) + 1
PipeKind(n) ==
    IF n > 3 * MaxLayers THEN "restore"
    ELSE CASE (n - 1) % 3 = 0 -> (IF n = 1 THEN "vm" ELSE "restore")
           [] (n - 1) % 3 = 1 -> "provision"
           [] (n - 1) % 3 = 2 -> "commit"

NoRecord(n) ==
    [set |-> "unset",
     model |-> CASE PipeKind(n) \in VMKinds -> NullVMModel
                 [] PipeKind(n) = "provision" -> NullModel
                 [] PipeKind(n) = "commit" -> NullCommitModel]

\* triggers = { provision = vers_provision.<layer>.id }
ProvisionKey == <<1>>
\* the provisioning declaration of a layer: files = [{ source = the
\* layer's script, destination = "/tmp/<script>" }], two commands (chmod,
\* bash), and triggers = { script = filesha256(the script) }, for the
\* layers after the first with a second trigger set from a variable. The
\* operator edits the script: pipe.cfg[L] is its version.
ScriptPath(L) == SrcPath \o <<L>>
ScriptDest(L) == <<SLASH, 2, SLASH, L>>
ScriptContent(v) == <<v>>
\* filesha256(path): taken to be injective on the content
FileSha256(content) == <<9>> \o content
ScriptKey == <<2>>
VariableKey == <<3>>
LayerFiles(L) ==
    ListValue(<<FileAt(StringValue(ScriptPath(L)), StringNull, ScriptDest(L))>>)
LayerCommands(L) == ListValue(<< <<1, L>>, <<2, L>> >>)
LayerTriggers(L, v) ==
    MapValue(IF L = 1
             THEN ScriptKey :> StringValue(FileSha256(ScriptContent(v)))
             ELSE (ScriptKey :> StringValue(FileSha256(ScriptContent(v))))
                  @@ (VariableKey :> StringValue(<<1>>)))
\* what os.ReadFile finds on the machine running the provider
PipeFS(L) == ScriptPath(L) :> [ok |-> TRUE, content |-> ScriptContent(pipe.cfg[L])]

InitPipe ==
    /\ Quiet
    /\ keyFiles = {}
    /\ sess = Off /\ xfer = Off
    /\ wait = Off /\ exec = Off /\ twin = Off
    /\ world = [on |-> TRUE, vms |-> {}, images |-> {}, nvm |-> 0, nimg |-> 0,
                nops |-> 0, rec |-> NoRecords]
    /\ pipe = [on |-> TRUE,
               cfg |-> [L \in Layers |-> 1],
               rec |-> [n \in 1..PipeSize |-> NoRecord(n)],
               tainted |-> [n \in 1..PipeSize |-> FALSE],
               before |-> [n \in 1..PipeSize |-> NoRecord(n)],
               plan |-> [n \in 1..PipeSize |-> "noop"],
               phase |-> "idle", at |-> 0,
               error |-> FALSE, remoteFailed |-> FALSE,
               edits |-> 0, edited |-> 0, applies |-> 0, sinceEdit |-> 0,
               lost |-> 0]

\* ---- terraform apply begins with the refresh: Read is called for every
\* recorded resource, in dependency order, and the plan is made from what
\* the refresh leaves.
\* the VM a record stands for: its own for the three types that own one,
\* the provisioned one for vers_provision; vers_vm_commit reads nothing
RefreshedVM(n) ==
    CASE PipeKind(n) \in VMKinds -> {ValueString(pipe.rec[n].model.ID)}
      [] PipeKind(n) = "provision" -> {ValueString(pipe.rec[n].model.VMID)}
      [] PipeKind(n) = "commit" -> {}

\* every record would be kept by a refresh: no VM a record stands for has
\* left the remote
InStep ==
    \A n \in 1..PipeSize :
        pipe.rec[n].set = "set" => RefreshedVM(n) \subseteq world.vms

\* ---- terraform plan: the action of each resource, in dependency order.
\* A computed attribute of a resource that is created or replaced is
\* unknown until it is applied. In an in-place update, id is the recorded
\* id (UseStateForUnknown) and commit_id, which has no plan modifier, is
\* unknown.
RECURSIVE PipeAction(_)
PlannedID(n) ==
    IF PipeAction(n) \in {"create", "replace"} THEN StringUnknown
    ELSE pipe.rec[n].model.ID
PlannedCommitID(n) ==
    IF PipeAction(n) = "noop" THEN pipe.rec[n].model.CommitID
    ELSE StringUnknown

\* the declaration of resource n, given the values of what it refers to
PipeConfig(n, vmid, provid, commitid) ==
    CASE PipeKind(n) = "vm" -> VMCreatePlan("vm", <<>>, TRUE)
      [] PipeKind(n) = "restore" ->
           [VMCreatePlan("restore", <<>>, TRUE) EXCEPT !.CommitID = commitid]
      [] PipeKind(n) = "provision" ->
           [ID |-> StringUnknown, VMID |-> vmid, Files |-> LayerFiles(LayerOf(n)),
            Commands |-> LayerCommands(LayerOf(n)),
            Triggers |-> LayerTriggers(LayerOf(n), pipe.cfg[LayerOf(n)])]
      [] PipeKind(n) = "commit" ->
           [ID |-> StringUnknown, VMID |-> vmid, CommitID |-> StringUnknown,
            KeepPaused |-> TRUE,
            Triggers |-> MapValue(ProvisionKey :> provid)]

\* vers_vm_commit: vm_id requires replacement, triggers and keep_paused are
\* updated in place
CommitPlanFor(state, config) ==
    IF state.set # "set" THEN "create"
    ELSE IF config.VMID # state.model.VMID THEN "replace"
    ELSE IF \/ config.Triggers # state.model.Triggers
            \/ config.KeepPaused # state.model.KeepPaused THEN "update"
    ELSE "noop"

\* vers_vm_restore: commit_id requires replacement
RestorePlanFor(state, config) ==
    IF state.set # "set" THEN "create"
    ELSE IF config.CommitID # state.model.CommitID THEN "replace"
    ELSE "noop"

PipeAction(n) ==
    LET L == LayerOf(n)
        st == pipe.rec[n]
    IN CASE pipe.tainted[n] -> "replace"
         [] PipeKind(n) = "vm" ->
              IF st.set # "set" THEN "create" ELSE "noop"
         [] PipeKind(n) = "restore" ->
              RestorePlanFor(st, PipeConfig(n, StringNull, StringNull,
                                            PlannedCommitID(CommitOf(L - 1))))
         [] PipeKind(n) = "provision" ->
              PlanFor(st, PipeConfig(n, PlannedID(VMOf(L)), StringNull,
                                     StringNull)).action
         [] PipeKind(n) = "commit" ->
              CommitPlanFor(st, PipeConfig(n, PlannedID(VMOf(L)),
                                           PlannedID(ProvOf(L)), StringNull))

\* the operator changes the provisioning declaration of one layer of a
\* pipeline that is built and up to date
Converged ==
    /\ pipe.phase \in {"idle", "applied"}
    /\ InStep
    /\ \A n \in 1..PipeSize : PipeAction(n) = "noop"

PipeEdit ==
    /\ pipe.on
    /\ Converged
    /\ pipe.edits < MaxEdits
    /\ \E L \in Layers :
        pipe' = [pipe EXCEPT !.cfg[L] = @ + 1, !.edits = @ + 1,
                             !.edited = L, !.sinceEdit = 0,
                             !.before = pipe.rec, !.phase = "idle",
                             !.error = FALSE, !.remoteFailed = FALSE]
    /\ UNCHANGED <<handlerVars, keyFiles, tfstate, planned, fp, sess, world, xfer,
                   wait, exec, twin>>

\* the handler Terraform calls for resource n
PipeHandler(n, action) ==
    CASE PipeKind(n) \in VMKinds -> VMOps[PipeKind(n)][action]
      [] PipeKind(n) = "provision" -> action
      [] PipeKind(n) = "commit" -> "VMCommit" \o action

\* terraform apply begins: the refresh walks the resources in dependency
\* order
PipeRefresh ==
    /\ pipe.on
    /\ op = "none"
    /\ pipe.phase \in {"idle", "applied"}
    /\ pipe.applies < MaxApplies
    /\ pipe' = [pipe EXCEPT !.phase = "refreshing", !.at = 1,
                            !.error = FALSE, !.remoteFailed = FALSE,
                            !.applies = @ + 1,
                            !.sinceEdit = IF @ < 2 THEN @ + 1 ELSE @]
    /\ UNCHANGED <<handlerVars, keyFiles, tfstate, planned, fp, sess, world, xfer,
                   wait, exec, twin>>

\* a recorded resource is refreshed: Terraform calls its Read with the
\* recorded state
PipeRead ==
    /\ pipe.on
    /\ pipe.phase = "refreshing"
    /\ pipe.at <= PipeSize
    /\ pipe.rec[pipe.at].set = "set"
    /\ LET n == pipe.at
       IN CASE PipeKind(n) \in VMKinds ->
                 InvokeVM(PipeHandler(n, "Read"), "GetVM", NullVMModel,
                          pipe.rec[n].model)
            [] PipeKind(n) = "provision" -> InvokeRead(pipe.rec[n].model)
            [] PipeKind(n) = "commit" ->
                 InvokeVM(PipeHandler(n, "Read"), "Set", NullCommitModel,
                          pipe.rec[n].model)

\* the refresh is over: the plan is made from the records it left; the
\* resources to replace are destroyed first
PipePlan ==
    /\ pipe.on
    /\ op = "none"
    /\ pipe.phase = "refreshing"
    /\ pipe.at > PipeSize
    /\ pipe' = [pipe EXCEPT !.plan = [n \in 1..PipeSize |-> PipeAction(n)],
                            !.phase = "destroying", !.at = PipeSize]
    /\ UNCHANGED <<handlerVars, keyFiles, tfstate, planned, fp, sess, world, xfer,
                   wait, exec, twin>>

\* ---- terraform apply. A resource that is replaced is destroyed and then
\* created, and what depends on it is destroyed before it: Delete runs for
\* the resources to replace in reverse dependency order, then Create and
\* Update run in dependency order, where what a resource refers to has
\* been applied and is known. Each handler runs call by call against the
\* remote (world), as in SpecRes. The first error ends the apply.
PipePlanned(n) ==
    LET L == LayerOf(n)
        cfg == PipeConfig(n,
                 IF PipeKind(n) \in {"provision", "commit"}
                 THEN pipe.rec[VMOf(L)].model.ID ELSE StringNull,
                 IF PipeKind(n) = "commit"
                 THEN pipe.rec[ProvOf(L)].model.ID ELSE StringNull,
                 IF PipeKind(n) = "restore"
                 THEN pipe.rec[CommitOf(L - 1)].model.CommitID ELSE StringNull)
    IN IF pipe.plan[n] = "update"
       THEN [cfg EXCEPT !.ID = pipe.rec[n].model.ID]
       ELSE cfg

\* Terraform's check of a handler's result against the plan it was given:
\* an attribute whose planned value was known must have that value
\* ("Provider produced inconsistent result after apply")
Inconsistent(plan, result) ==
    \E f \in DOMAIN plan :
        /\ f \notin {"Files", "Commands", "Triggers", "WaitBoot", "KeepPaused"}
        /\ ~IsUnknown(plan[f])
        /\ plan[f] # result[f]

\* ... and no attribute of the result may be unknown ("Provider returned
\* invalid result object after apply")
Invalid(result) ==
    \E f \in DOMAIN result :
        /\ f \notin {"Files", "Commands", "Triggers", "WaitBoot", "KeepPaused"}
        /\ IsUnknown(result[f])

\* such a result is recorded with null in the place of each unknown value
UnknownAsNull(result) ==
    [f \in DOMAIN result |->
        IF f \in {"Files", "Commands", "Triggers", "WaitBoot", "KeepPaused"}
        THEN result[f]
        ELSE IF IsUnknown(result[f]) THEN StringNull ELSE result[f]]

\* the walk after the resource at at has been passed in the destroy phase
AfterDestroy(at) ==
    IF at > 1 THEN [phase |-> "destroying", at |-> at - 1]
    ELSE [phase |-> "applying", at |-> 1]

\* a resource that is to be replaced is destroyed: Terraform calls its
\* Delete with the recorded state
PipeDestroy ==
    /\ pipe.on
    /\ pipe.phase = "destroying"
    /\ pipe.plan[pipe.at] = "replace"
    /\ LET n == pipe.at IN
        InvokeVM(PipeHandler(n, "Delete"),
                 IF PipeKind(n) \in VMKinds THEN "DeleteVM" ELSE "Set",
                 NoRecord(n).model, pipe.rec[n].model)

\* a resource whose planned action is not a no-op is created or updated:
\* Terraform calls its Create or Update with the plan
PipeApply ==
    /\ pipe.on
    /\ pipe.phase = "applying"
    /\ pipe.at <= PipeSize
    /\ pipe.plan[pipe.at] # "noop"
    /\ LET n == pipe.at
           h == PipeHandler(n, IF pipe.plan[n] = "update" THEN "Update" ELSE "Create")
       IN CASE PipeKind(n) \in VMKinds ->
                 InvokeVM(h, "Primary", PipePlanned(n), NullVMModel)
            [] PipeKind(n) = "provision" -> InvokeProvision(h, PipePlanned(n))
            [] PipeKind(n) = "commit" -> InvokeCommit(h, PipePlanned(n))

\* the fingerprint of a layer's provisioning is taken over the layer's
\* script as it is on the machine running the provider
PipeSetState ==
    /\ pipe.on
    /\ op \in ProvisionHandlers
    /\ \E enum \in Enumerations(DOMAIN req.Plan.Triggers.elems) :
        SetState(PipeFS(LayerOf(pipe.at)), enum)

\* something did not go as it does when the remote and the transport
\* work: a call failed, the handler reported an error or a warning, or it
\* left an attribute unknown
Troubled ==
    \/ \E k \in 1..Len(log) : ~log[k].ok
    \/ diags # <<>>
    \/ tflogs # {}
    \/ respState.set = "set" /\ Invalid(respState.model)

\* the handler has returned and Terraform takes its response. Read: the
\* record is dropped when the resource was removed (the remote is no
\* longer as recorded), refreshed when state was set. Delete: the record is
\* dropped unless an error was reported. Create and Update: the state that
\* was set is recorded; a Create that ends with an error leaves what it
\* recorded tainted. The first error ends the apply.
PipeReturn ==
    /\ pipe.on
    /\ pc = "returned"
    /\ LET n == pipe.at
           set == respState.set = "set"
           applying == pipe.phase = "applying"
           failed == \/ HasError
                     \/ applying /\ ~set
                     \/ applying /\ set /\ Inconsistent(req.Plan, respState.model)
                     \/ applying /\ set /\ Invalid(respState.model)
       IN pipe' = [pipe EXCEPT
             !.rec[n] = IF respState.set = "removed" THEN NoRecord(n)
                        ELSE IF set
                        THEN [set |-> "set", model |-> UnknownAsNull(respState.model)]
                        ELSE @,
             !.tainted[n] = IF respState.set = "removed" THEN FALSE
                            ELSE IF applying /\ set
                            THEN failed /\ op = PipeHandler(n, "Create")
                            ELSE @,
             !.remoteFailed = \/ @
                              \/ Troubled
                              \/ pipe.phase = "refreshing" /\ respState.set = "removed",
             !.error = failed,
             !.phase = IF failed THEN "applied"
                       ELSE IF @ = "destroying" THEN AfterDestroy(n).phase
                       ELSE @,
             !.at = IF pipe.phase = "destroying" THEN AfterDestroy(n).at ELSE @ + 1]
    /\ op' = "none"
    /\ pc' = "idle"
    /\ req' = [Plan |-> NullModel, State |-> NullModel]
    /\ i' = 0
    /\ log' = <<>>
    /\ diags' = <<>>
    /\ respState' = Unset
    /\ tflogs' = {}
    /\ UNCHANGED <<inflight, deferred, keyFiles, tfstate, planned, fp,
                   sess, world, xfer, wait, exec, twin>>

\* a resource that is not recorded, not to be destroyed, or not to be
\* changed, is passed over
PipeSkip ==
    /\ pipe.on
    /\ op = "none"
    /\ \/ /\ pipe.phase = "refreshing"
          /\ pipe.at <= PipeSize
          /\ pipe.rec[pipe.at].set # "set"
          /\ pipe' = [pipe EXCEPT !.at = @ + 1]
       \/ /\ pipe.phase = "destroying"
          /\ pipe.plan[pipe.at] # "replace"
          /\ pipe' = [pipe EXCEPT !.phase = AfterDestroy(pipe.at).phase,
                                  !.at = AfterDestroy(pipe.at).at]
       \/ /\ pipe.phase = "applying"
          /\ pipe.at <= PipeSize
          /\ pipe.plan[pipe.at] = "noop"
          /\ pipe' = [pipe EXCEPT !.at = @ + 1]
    /\ UNCHANGED <<handlerVars, keyFiles, tfstate, planned, fp, sess, world, xfer,
                   wait, exec, twin>>

\* every resource has been visited: the apply is complete
PipeEnd ==
    /\ pipe.on
    /\ op = "none"
    /\ pipe.phase = "applying"
    /\ pipe.at > PipeSize
    /\ pipe' = [pipe EXCEPT !.phase = "applied"]
    /\ UNCHANGED <<handlerVars, keyFiles, tfstate, planned, fp, sess, world, xfer,
                   wait, exec, twin>>

\* a VM is deleted outside of Terraform, at any moment (at most MaxLost
\* times)
PipeOutOfBandDelete ==
    /\ pipe.on
    /\ pipe.lost < MaxLost
    /\ \E id \in world.vms : world' = [world EXCEPT !.vms = @ \ {id}]
    /\ pipe' = [pipe EXCEPT !.lost = @ + 1]
    /\ UNCHANGED <<handlerVars, keyFiles, tfstate, planned, fp, sess, xfer,
                   wait, exec, twin>>

NextPipe ==
    \/ PipeEdit
    \/ PipeRefresh
    \/ PipeRead
    \/ PipePlan
    \/ PipeDestroy
    \/ PipeApply
    \/ PipeReturn
    \/ PipeSkip
    \/ PipeEnd
    \/ VMCreatePrimary
    \/ VMRestoreWaitForBoot
    \/ VMRestoreBootSleep
    \/ VMCreateGetVM
    \/ VMCreateGetSSHKey
    \/ VMRead
    \/ VMDelete
    \/ LocalOnly
    \/ PipeOutOfBandDelete
    \/ SyncGetSSHKey
    \/ SyncNewSSHClient
    \/ SyncExecStart
    \/ SyncExecWait
    \/ CommitVM
    \/ ReadGetVM
    \/ ProvGetSSHKey
    \/ ProvNewSSHClient
    \/ ProvWaitReachable
    \/ ProvReachSleep
    \/ CreateFile
    \/ ProvFileMkdir
    \/ ProvFileTransfer
    \/ ProvExecStart
    \/ ProvExecWait
    \/ PipeSetState

SpecPipe == InitPipe /\ [][NextPipe]_vars

\* the first apply after the edit is over, none of its calls failed, the
\* refresh found the remote as recorded and no recorded VM has been deleted
\* outside of Terraform since
FirstApplyOver ==
    /\ pipe.on
    /\ pipe.phase = "applied"
    /\ pipe.edited > 0
    /\ pipe.sinceEdit = 1
    /\ ~pipe.remoteFailed
    /\ InStep

\* resource n has been built anew
Rebuilt(n) ==
    /\ pipe.rec[n].set = "set"
    /\ pipe.rec[n].model.ID # pipe.before[n].model.ID

\* C19: when the provisioning declaration of one layer of the pipeline
\* changes, the next apply re-provisions and re-commits that layer and
\* rebuilds everything downstream of it (each later layer's VM restored
\* from the new commit id, its provision and commit run again, the workers
\* restored from the last commit); the layers before it are left alone.
C19_ChangeCascadesInNextApply ==
    FirstApplyOver =>
        /\ ~pipe.error
        /\ Converged
        /\ \A n \in 1..PipeSize :
              IF LayerOf(n) < pipe.edited THEN pipe.rec[n] = pipe.before[n]
              ELSE IF n = VMOf(pipe.edited) THEN pipe.rec[n] = pipe.before[n]
              ELSE Rebuilt(n)
        /\ \A n \in 1..PipeSize :
              (PipeKind(n) = "restore") =>
                  pipe.rec[n].model.CommitID =
                      pipe.rec[CommitOf(LayerOf(n) - 1)].model.CommitID

\* ------------------------------------------------- WriteFile and ReadFile
\* SpecFile: WriteFile(p, c) and then ReadFile(p) on one VM. Strings are
\* byte sequences; the command line is built as the code builds it and
\* read by the shell of the VM as a POSIX shell reads it.
SQ == 39
BS == 92
SP == 32
NL == 10
DASH == 45
\* the bytes of the contents: NUL, newline, the single quote and a byte
\* that is not valid text
ContentBytes == {0, NL, SQ, 255}
\* the bytes of the paths: slash, dot, single quote, backslash and dash
PathBytes == {SLASH, DOT, SQ, BS, DASH}
Contents == SeqsUpTo(ContentBytes, MaxContentLen)
Paths == SeqsUpTo(PathBytes, MaxPathLen)

\* strings.ReplaceAll(s, "'", "'\\''")
RECURSIVE shellEscape(_)
shellEscape(s) ==
    IF s = <<>> THEN <<>>
    ELSE (IF Head(s) = SQ THEN <<SQ, BS, SQ, SQ>> ELSE <<Head(s)>>)
         \o shellEscape(Tail(s))

\* the alphabet of base64.StdEncoding: A-Z a-z 0-9 + / and the padding =
B64Char(v) ==
    IF v < 26 THEN 65 + v
    ELSE IF v < 52 THEN 97 + (v - 26)
    ELSE IF v < 62 THEN 48 + (v - 52)
    ELSE IF v = 62 THEN 43 ELSE 47
B64Pad == 61
B64Val(ch) ==
    IF ch >= 65 /\ ch <= 90 THEN ch - 65
    ELSE IF ch >= 97 /\ ch <= 122 THEN ch - 97 + 26
    ELSE IF ch >= 48 /\ ch <= 57 THEN ch - 48 + 52
    ELSE IF ch = 43 THEN 62
    ELSE IF ch = 47 THEN 63
    ELSE -1

\* base64.StdEncoding.EncodeToString([]byte(content))
RECURSIVE EncodeToString(_)
EncodeToString(b) ==
    IF b = <<>> THEN <<>>
    ELSE IF Len(b) = 1
    THEN <<B64Char(b[1] \div 4), B64Char((b[1] % 4) * 16), B64Pad, B64Pad>>
    ELSE IF Len(b) = 2
    THEN <<B64Char(b[1] \div 4), B64Char((b[1] % 4) * 16 + b[2] \div 16),
           B64Char((b[2] % 16) * 4), B64Pad>>
    ELSE <<B64Char(b[1] \div 4), B64Char((b[1] % 4) * 16 + b[2] \div 16),
           B64Char((b[2] % 16) * 4 + b[3] \div 64), B64Char(b[3] % 64)>>
         \o EncodeToString(SubSeq(b, 4, Len(b)))

\* the literal parts of the three command lines
MkdirWord == <<109, 107, 100, 105, 114>>
MinusP == <<DASH, 112>>
EchoWord == <<101, 99, 104, 111>>
PipeSign == <<124>>
Base64Word == <<98, 97, 115, 101, 54, 52>>
MinusD == <<DASH, 100>>
ToSign == <<62>>
CatWord == <<99, 97, 116>>

\* fmt.Sprintf("mkdir -p '%s'", shellEscape(dir))
MkdirCmd(dir) ==
    MkdirWord \o <<SP>> \o MinusP \o <<SP, SQ>> \o shellEscape(dir) \o <<SQ>>
\* fmt.Sprintf("echo '%s' | base64 -d > '%s'", encoded, shellEscape(remotePath))
WriteCmd(encoded, remotePath) ==
    EchoWord \o <<SP, SQ>> \o encoded \o <<SQ, SP>> \o PipeSign \o <<SP>>
    \o Base64Word \o <<SP>> \o MinusD \o <<SP>> \o ToSign \o <<SP, SQ>>
    \o shellEscape(remotePath) \o <<SQ>>
\* fmt.Sprintf("cat '%s'", shellEscape(remotePath))
CatCmd(remotePath) ==
    CatWord \o <<SP, SQ>> \o shellEscape(remotePath) \o <<SQ>>

\* ---- the VM: its shell splits a command line into words. Between single
\* quotes every byte stands for itself; outside, a backslash makes the
\* next byte stand for itself and a space ends the word. lit records that
\* a word had a quoted part (such a word is never an operator).
RECURSIVE ShellWords(_, _, _, _, _, _)
ShellWords(s, k, cur, has, quoted, acc) ==
    LET word == [text |-> cur.text, lit |-> cur.lit]
        none == [text |-> <<>>, lit |-> FALSE]
    IN IF k > Len(s)
       THEN [ok |-> ~quoted, words |-> IF has THEN Append(acc, word) ELSE acc]
       ELSE IF quoted
       THEN IF s[k] = SQ
            THEN ShellWords(s, k + 1, cur, TRUE, FALSE, acc)
            ELSE ShellWords(s, k + 1, [cur EXCEPT !.text = Append(@, s[k])],
                            TRUE, TRUE, acc)
       ELSE IF s[k] = SQ
       THEN ShellWords(s, k + 1, [cur EXCEPT !.lit = TRUE], TRUE, TRUE, acc)
       ELSE IF s[k] = BS
       THEN IF k = Len(s)
            THEN ShellWords(s, k + 1, cur, has, FALSE, acc)
            ELSE ShellWords(s, k + 2,
                            [text |-> Append(cur.text, s[k + 1]), lit |-> TRUE],
                            TRUE, FALSE, acc)
       ELSE IF s[k] = SP
       THEN ShellWords(s, k + 1, none, FALSE, FALSE,
                       IF has THEN Append(acc, word) ELSE acc)
       ELSE ShellWords(s, k + 1, [cur EXCEPT !.text = Append(@, s[k])],
                       TRUE, FALSE, acc)

Parse(cmd) == ShellWords(cmd, 1, [text |-> <<>>, lit |-> FALSE], FALSE, FALSE, <<>>)
Keyword(w, text) == w.text = text /\ ~w.lit

\* base64 -d: newlines are passed over, four characters give three bytes,
\* padding ends the input; anything else is an error
RECURSIVE B64Decode(_)
B64Decode(t) ==
    IF t = <<>> THEN [ok |-> TRUE, bytes |-> <<>>]
    ELSE IF Head(t) = NL THEN B64Decode(Tail(t))
    ELSE IF Len(t) < 4 \/ B64Val(t[1]) < 0 \/ B64Val(t[2]) < 0
    THEN [ok |-> FALSE, bytes |-> <<>>]
    ELSE LET a == B64Val(t[1])
             b == B64Val(t[2])
             rest == B64Decode(SubSeq(t, 5, Len(t)))
             onlyNL == \A k \in 5..Len(t) : t[k] = NL
         IN IF t[3] = B64Pad
            THEN [ok |-> t[4] = B64Pad /\ onlyNL,
                  bytes |-> <<a * 4 + b \div 16>>]
            ELSE IF B64Val(t[3]) < 0 THEN [ok |-> FALSE, bytes |-> <<>>]
            ELSE IF t[4] = B64Pad
            THEN [ok |-> onlyNL,
                  bytes |-> <<a * 4 + b \div 16,
                              (b % 16) * 16 + B64Val(t[3]) \div 4>>]
            ELSE IF B64Val(t[4]) < 0 THEN [ok |-> FALSE, bytes |-> <<>>]
            ELSE [ok |-> rest.ok,
                  bytes |-> <<a * 4 + b \div 16,
                              (b % 16) * 16 + B64Val(t[3]) \div 4,
                              (B64Val(t[3]) % 4) * 64 + B64Val(t[4])>>
                            \o rest.bytes]

\* ---- the VM: its kernel walks a path element by element from the root
\* or from the working directory. "." stays, ".." goes to the parent, and
\* a name must be a directory that exists; with make (mkdir -p) a name
\* that is missing is made. The walk fails at a name that is a file. The
\* directories above the working directory exist.
DirExists(fs, rooted, st) ==
    \/ st = <<>>
    \/ \A k \in 1..Len(st) : st[k] = DotDot
    \/ PathOf(rooted, st) \in fs.dirs
RECURSIVE Walk(_, _, _, _, _, _)
Walk(fs, el, k, rooted, st, make) ==
    IF k > Len(el) THEN [ok |-> TRUE, st |-> st, fs |-> fs]
    ELSE IF el[k] = <<>> \/ el[k] = DotDir
    THEN Walk(fs, el, k + 1, rooted, st, make)
    ELSE IF el[k] = DotDot
    THEN IF st # <<>> /\ st[Len(st)] # DotDot
         THEN Walk(fs, el, k + 1, rooted, SubSeq(st, 1, Len(st) - 1), make)
         ELSE IF rooted THEN Walk(fs, el, k + 1, rooted, st, make)
         ELSE Walk(fs, el, k + 1, rooted, Append(st, DotDot), make)
    ELSE LET to == Append(st, el[k])
         IN IF DirExists(fs, rooted, to)
            THEN Walk(fs, el, k + 1, rooted, to, make)
            ELSE IF make /\ PathOf(rooted, to) \notin DOMAIN fs.files
            THEN Walk([fs EXCEPT !.dirs = @ \cup {PathOf(rooted, to)}],
                      el, k + 1, rooted, to, make)
            ELSE [ok |-> FALSE, st |-> st, fs |-> fs]

\* mkdir -p DIR
MakeDirs(fs, p) == Walk(fs, PathElements(p), 1, IsRooted(p), <<>>, TRUE)

\* the file a path names: the walk to its directory succeeds and its last
\* element is a name that is not a directory
NamedFile(fs, p) ==
    LET el == PathElements(p)
        last == el[Len(el)]
        w == Walk(fs, SubSeq(el, 1, Len(el) - 1), 1, IsRooted(p), <<>>, FALSE)
        file == PathOf(IsRooted(p), Append(w.st, last))
    IN [ok |-> /\ p # <<>>
               /\ last \notin {<<>>, DotDir, DotDot}
               /\ w.ok
               /\ file \notin fs.dirs,
        file |-> file]

\* a path names a file that can be created
Creatable(fs, p) == NamedFile(fs, p).ok

\* the VM runs a command line; the result is the exit status, the output
\* and the file system afterwards
Run(fs, cmd) ==
    LET parsed == Parse(cmd)
        w == parsed.words
        failed == [ok |-> FALSE, out |-> <<>>, fs |-> fs]
    IN IF ~parsed.ok \/ w = <<>> THEN failed
       ELSE IF Keyword(w[1], MkdirWord)
       THEN \* mkdir -p DIR: a word that begins with a dash and is longer
            \* than the dash is an option, not a directory
            IF Len(w) = 3 /\ Keyword(w[2], MinusP) /\ w[3].text # <<>>
               /\ (w[3].text[1] = DASH => Len(w[3].text) = 1)
               /\ MakeDirs(fs, w[3].text).ok
            THEN [ok |-> TRUE, out |-> <<>>, fs |-> MakeDirs(fs, w[3].text).fs]
            ELSE failed
       ELSE IF Keyword(w[1], EchoWord)
       THEN \* echo TEXT | base64 -d > FILE: the redirection is made first,
            \* then echo writes TEXT and a newline to base64 -d
            IF Len(w) = 7 /\ Keyword(w[3], PipeSign) /\ Keyword(w[4], Base64Word)
               /\ Keyword(w[5], MinusD) /\ Keyword(w[6], ToSign)
               /\ Creatable(fs, w[7].text)
            THEN LET dec == B64Decode(w[2].text \o <<NL>>)
                     file == NamedFile(fs, w[7].text).file
                 IN [ok |-> dec.ok, out |-> <<>>,
                     fs |-> [fs EXCEPT !.files =
                               [q \in DOMAIN @ \cup {file} |->
                                   IF q = file THEN dec.bytes ELSE @[q]]]]
            ELSE failed
       ELSE IF Keyword(w[1], CatWord)
       THEN \* cat ARG: "-" and "--" read the standard input, which is
            \* empty; another word that begins with a dash is an option
            IF Len(w) # 2 THEN failed
            ELSE IF w[2].text \in {<<DASH>>, <<DASH, DASH>>}
            THEN [ok |-> TRUE, out |-> <<>>, fs |-> fs]
            ELSE IF w[2].text # <<>> /\ w[2].text[1] = DASH THEN failed
            ELSE IF /\ NamedFile(fs, w[2].text).ok
                    /\ NamedFile(fs, w[2].text).file \in DOMAIN fs.files
            THEN [ok |-> TRUE, out |-> fs.files[NamedFile(fs, w[2].text).file],
                  fs |-> fs]
            ELSE failed
       ELSE failed

\* s.Exec(cmd) returns when the ssh process has exited (cmd.Run): the VM
\* has run the command, or the transport failed and the VM has run nothing
ExecResults(fs, cmd) ==
    {Run(fs, cmd), [ok |-> FALSE, out |-> <<>>, fs |-> fs]}

NoFiles == [files |-> <<>>, dirs |-> {}]

InitFile ==
    /\ Quiet
    /\ keyFiles = {}
    /\ sess = Off /\ world = Off /\ pipe = Off
    /\ wait = Off /\ exec = Off /\ twin = Off
    /\ \E p \in Paths, c \in Contents :
        xfer = [on |-> TRUE, pc |-> "start", path |-> p, content |-> c,
                fs |-> NoFiles, writeOK |-> FALSE, readOK |-> FALSE,
                out |-> <<>>]

\* SSHClient.WriteFile(remotePath, content), first command:
\* dir := filepath.Dir(remotePath); unless dir is "." or "/",
\* s.Exec("mkdir -p '<dir>'") is waited for; its error ends the call
XferMkdir ==
    /\ xfer.on
    /\ xfer.pc = "start"
    /\ LET dir == Dir(xfer.path)
       IN IF NeedsMkdir(dir)
          THEN \E r \in ExecResults(xfer.fs, MkdirCmd(dir)) :
                xfer' = [xfer EXCEPT !.pc = IF r.ok THEN "transfer" ELSE "written",
                                     !.fs = r.fs]
          ELSE xfer' = [xfer EXCEPT !.pc = "transfer"]
    /\ UNCHANGED <<handlerVars, keyFiles, tfstate, planned, fp, sess, world, pipe,
                   wait, exec, twin>>

\* SSHClient.WriteFile, second command:
\* s.Exec("echo '<base64>' | base64 -d > '<path>'") is waited for; the call
\* returns its error or nil
XferTransfer ==
    /\ xfer.on
    /\ xfer.pc = "transfer"
    /\ \E r \in ExecResults(xfer.fs,
                            WriteCmd(EncodeToString(xfer.content), xfer.path)) :
        xfer' = [xfer EXCEPT !.pc = "written", !.fs = r.fs, !.writeOK = r.ok]
    /\ UNCHANGED <<handlerVars, keyFiles, tfstate, planned, fp, sess, world, pipe,
                   wait, exec, twin>>

\* SSHClient.ReadFile(remotePath): s.Exec("cat '<path>'"); stdout of cat
\* and whether err is nil
XferReadFile ==
    /\ xfer.on
    /\ xfer.pc = "written"
    /\ \E r \in ExecResults(xfer.fs, CatCmd(xfer.path)) :
        xfer' = [xfer EXCEPT !.pc = "read", !.readOK = r.ok,
                             !.out = IF r.ok THEN r.out ELSE <<>>]
    /\ UNCHANGED <<handlerVars, keyFiles, tfstate, planned, fp, sess, world, pipe,
                   wait, exec, twin>>

NextXfer == XferMkdir \/ XferTransfer \/ XferReadFile

SpecFile == InitFile /\ [][NextXfer]_vars

\* C20: for every content c and every destination path p, when
\* WriteFile(p, c) and then ReadFile(p) both return without an error,
\* ReadFile returns exactly c.
C20_WriteThenReadReturnsContent ==
    (xfer.on /\ xfer.pc = "read" /\ xfer.writeOK /\ xfer.readOK) =>
        xfer.out = xfer.content

\* ------------------------------------------------------------ WaitReachable
\* SpecReach: one call of SSHClient.WaitReachable(timeout) on a clock that
\* counts seconds. Only a probe and a sleep take time. The VM answers from
\* the second readyAt on, or never.
MaxReachTimeout == 20   \* the longest timeout a call is given, in seconds
ProbeTimeout == 15
ProbeSleep == 3

ReachTimeouts == {0, 7, MaxReachTimeout}
\* the VM answers from second at on, or never
NeverReady == [ever |-> FALSE, at |-> 0]
ReadyTimes ==
    {NeverReady} \cup {[ever |-> TRUE, at |-> t] : t \in {0, 5, MaxReachTimeout - 1}}

\* "ready" and the outputs a probe may capture: ASCII white space around
\* the word, a no-break space and an em space in UTF-8, and a byte that is
\* no valid UTF-8
ReadyWord == <<114, 101, 97, 100, 121>>
ProbeOutputs ==
    {<<>>, <<NL>>, ReadyWord \o <<NL>>, <<SP>> \o ReadyWord \o <<13, NL>>,
     ReadyWord \o <<SP, 120>> \o <<NL>>,
     <<194, 160>> \o ReadyWord \o <<226, 128, 131, NL>>,
     <<160>> \o ReadyWord \o <<NL>>}

\* utf8.DecodeRune(s) for a string that is not empty: the code point and
\* the number of bytes it takes; bytes that are no valid UTF-8 give
\* RuneError (U+FFFD) of width 1
RuneErrorOne == [r |-> 65533, size |-> 1]
IsCont(b) == b >= 128 /\ b <= 191
DecodeRune(s) ==
    LET b0 == s[1]
        n == Len(s)
    IN IF b0 < 128 THEN [r |-> b0, size |-> 1]
       ELSE IF b0 >= 194 /\ b0 <= 223
       THEN IF n >= 2 /\ IsCont(s[2])
            THEN [r |-> (b0 % 32) * 64 + (s[2] % 64), size |-> 2]
            ELSE RuneErrorOne
       ELSE IF b0 >= 224 /\ b0 <= 239
       THEN IF /\ n >= 3
               /\ s[2] >= (IF b0 = 224 THEN 160 ELSE 128)
               /\ s[2] <= (IF b0 = 237 THEN 159 ELSE 191)
               /\ IsCont(s[3])
            THEN [r |-> (b0 % 16) * 4096 + (s[2] % 64) * 64 + (s[3] % 64),
                  size |-> 3]
            ELSE RuneErrorOne
       ELSE IF b0 >= 240 /\ b0 <= 244
       THEN IF /\ n >= 4
               /\ s[2] >= (IF b0 = 240 THEN 144 ELSE 128)
               /\ s[2] <= (IF b0 = 244 THEN 143 ELSE 191)
               /\ IsCont(s[3])
               /\ IsCont(s[4])
            THEN [r |-> (b0 % 8) * 262144 + (s[2] % 64) * 4096
                          + (s[3] % 64) * 64 + (s[4] % 64),
                  size |-> 4]
            ELSE RuneErrorOne
       ELSE RuneErrorOne

\* utf8.DecodeLastRune(s) for a string that is not empty: the search for
\* the start of the last rune goes back over at most utf8.UTFMax bytes
RECURSIVE RuneStartFrom(_, _, _)
RuneStartFrom(s, start, lim) ==
    IF start < lim THEN lim
    ELSE IF ~IsCont(s[start]) THEN start
    ELSE RuneStartFrom(s, start - 1, lim)
DecodeLastRune(s) ==
    LET end == Len(s)
    IN IF s[end] < 128 THEN [r |-> s[end], size |-> 1]
       ELSE LET lim == IF end - 4 < 0 THEN 1 ELSE end - 4 + 1
                start == RuneStartFrom(s, end - 1, lim)
                d == DecodeRune(SubSeq(s, start, end))
            IN IF start + d.size - 1 # end THEN RuneErrorOne ELSE d

\* unicode.IsSpace: the six ASCII white-space characters, U+0085, U+00A0
\* and the characters of the White_Space property
IsSpace(r) ==
    \/ r \in {9, NL, 11, 12, 13, SP, 133, 160}
    \/ r \in {5760, 8232, 8233, 8239, 8287, 12288}
    \/ r >= 8192 /\ r <= 8202

\* strings.TrimSpace: leading and trailing white space is removed rune by
\* rune
RECURSIVE TrimLeft(_)
TrimLeft(s) ==
    IF s # <<>> /\ IsSpace(DecodeRune(s).r)
    THEN TrimLeft(SubSeq(s, DecodeRune(s).size + 1, Len(s)))
    ELSE s
RECURSIVE TrimRight(_)
TrimRight(s) ==
    IF s # <<>> /\ IsSpace(DecodeLastRune(s).r)
    THEN TrimRight(SubSeq(s, 1, Len(s) - DecodeLastRune(s).size))
    ELSE s
TrimSpace(s) == TrimRight(TrimLeft(s))

NoErr == [kind |-> "nil", at |-> 0]

\* what ExecWithTimeout("echo ready", 15*time.Second) may return at second
\* t + d when it was called at second t: cmd.Start fails at once; the
\* process ends with an error; the timer fires after ProbeTimeout; or the
\* process ends with status 0, which takes a VM that answers
ProbeReturns(t, readyAt) ==
    {[d |-> 0, err |-> [kind |-> "start", at |-> t], out |-> <<>>]}
    \cup {[d |-> d, err |-> [kind |-> "exit", at |-> t + d], out |-> <<>>] :
            d \in 0..ProbeTimeout}
    \cup {[d |-> ProbeTimeout, err |-> [kind |-> "timeout", at |-> t + ProbeTimeout],
           out |-> o] : o \in {<<>>, ReadyWord \o <<NL>>}}
    \cup {[d |-> d, err |-> NoErr, out |-> o] :
            d \in {e \in 0..ProbeTimeout : readyAt.ever /\ t + e >= readyAt.at},
            o \in ProbeOutputs}

\* the probe was answered: err == nil && strings.TrimSpace(out) == "ready"
Answered(r) == r.err = NoErr /\ TrimSpace(r.out) = ReadyWord

\* the return r of a probe called at second t is the one of a VM that is
\* out of reach before the second readyAt.at and answers from then on
\* without delay: the answer comes the moment the VM can give it, and a
\* probe fails only when it ends before that moment
Prompt(t, r, readyAt) ==
    IF Answered(r)
    THEN t + r.d = (IF t >= readyAt.at THEN t ELSE readyAt.at)
    ELSE ~readyAt.ever \/ t + r.d < readyAt.at

\* lastErr = err
NextLastErr(lastErr, err) == err

InitReach ==
    /\ Quiet
    /\ keyFiles = {}
    /\ sess = Off /\ world = Off /\ pipe = Off /\ xfer = Off
    /\ exec = Off /\ twin = Off
    /\ \E timeout \in ReachTimeouts, readyAt \in ReadyTimes :
        wait = [on |-> TRUE, fn |-> "WaitReachable", pc |-> "loop", now |-> 0,
                timeout |-> timeout, deadline |-> 0 + timeout,
                readyAt |-> readyAt, lastErr |-> NoErr, probes |-> 0,
                lastProbe |-> NoErr, prompt |-> TRUE,
                result |-> "pending", wrapped |-> NoErr]

\* for time.Now().Before(deadline) { ... }; after the loop the error, which
\* wraps lastErr when it is not nil
ReachLoop ==
    /\ wait.on /\ wait.fn = "WaitReachable"
    /\ wait.pc = "loop"
    /\ wait' = IF wait.now < wait.deadline
               THEN [wait EXCEPT !.pc = "probe"]
               ELSE [wait EXCEPT !.pc = "returned", !.result = "unreachable",
                                 !.wrapped = wait.lastErr]
    /\ UNCHANGED <<handlerVars, keyFiles, tfstate, planned, fp, sess, world,
                   pipe, xfer, exec, twin>>

\* out, err := s.ExecWithTimeout("echo ready", 15*time.Second); return nil
\* when the probe was answered, else lastErr = err. wait.prompt records
\* whether every probe so far returned as Prompt says.
ReachProbe ==
    /\ wait.on /\ wait.fn = "WaitReachable"
    /\ wait.pc = "probe"
    /\ \E r \in ProbeReturns(wait.now, wait.readyAt) :
        wait' = IF Answered(r)
                THEN [wait EXCEPT !.now = @ + r.d, !.probes = @ + 1,
                                  !.lastProbe = r.err,
                                  !.prompt = @ /\ Prompt(wait.now, r, wait.readyAt),
                                  !.pc = "returned", !.result = "nil"]
                ELSE [wait EXCEPT !.now = @ + r.d, !.probes = @ + 1,
                                  !.lastProbe = r.err,
                                  !.prompt = @ /\ Prompt(wait.now, r, wait.readyAt),
                                  !.lastErr = NextLastErr(@, r.err),
                                  !.pc = "sleep"]
    /\ UNCHANGED <<handlerVars, keyFiles, tfstate, planned, fp, sess, world,
                   pipe, xfer, exec, twin>>

\* time.Sleep(3 * time.Second)
ReachSleep ==
    /\ wait.on /\ wait.fn = "WaitReachable"
    /\ wait.pc = "sleep"
    /\ wait' = [wait EXCEPT !.now = @ + ProbeSleep, !.pc = "loop"]
    /\ UNCHANGED <<handlerVars, keyFiles, tfstate, planned, fp, sess, world,
                   pipe, xfer, exec, twin>>

NextReach == ReachLoop \/ ReachProbe \/ ReachSleep

SpecReach == InitReach /\ [][NextReach]_vars

\* C21: when the VM is within reach before the bound has elapsed and
\* answers every probe the moment it can, WaitReachable returns success,
\* and does so before the bound has elapsed; when the VM never answers,
\* WaitReachable returns the unreachable error, only once the clock has
\* reached the deadline, and the error wraps the error of the last probe
\* (nothing when there was no probe).
C21_ReachableWithinBound ==
    (wait.on /\ wait.fn = "WaitReachable" /\ wait.pc = "returned") =>
        /\ wait.result \in {"nil", "unreachable"}
        /\ (wait.readyAt.ever /\ wait.readyAt.at < wait.deadline /\ wait.prompt) =>
              /\ wait.result = "nil"
              /\ wait.now < wait.deadline
        /\ ~wait.readyAt.ever =>
              /\ wait.result = "unreachable"
              /\ wait.now >= wait.deadline
              /\ wait.wrapped = wait.lastProbe

\* -------------------------------------------------------------- WaitForBoot
\* SpecBoot: one call of Client.WaitForBoot(vmID, timeout) on the same kind
\* of clock. A poll (GetVM) and a sleep take time; the VM reports "running"
\* from the second runningAt.at on, or never.
MaxBootTimeout == 8     \* the longest timeout a call is given, in seconds
MaxPollTime == 3        \* the longest a poll that is answered takes
HTTPTimeout == 300
BootSleep == 2

BootTimeouts == {0, 5, MaxBootTimeout}
RunningTimes ==
    {NeverReady} \cup {[ever |-> TRUE, at |-> t] : t \in {0, 4, MaxBootTimeout + 1}}
BootingState == <<8>>

\* what c.GetVM(vmID) may return at second t + d when called at second t:
\* an error (ListVMs failed, at the latest when the HTTP client's timeout
\* fires), nil (the VM is not in the list), or the VM with its state
PollReturns(t, runningAt) ==
    {[d |-> d, err |-> TRUE, found |-> FALSE, State |-> <<>>] :
        d \in 0..MaxPollTime \cup {HTTPTimeout}}
    \cup {[d |-> d, err |-> FALSE, found |-> FALSE, State |-> <<>>] :
            d \in 0..MaxPollTime}
    \cup {[d |-> d, err |-> FALSE, found |-> TRUE,
           State |-> IF runningAt.ever /\ t + d >= runningAt.at
                     THEN RunningState ELSE BootingState] :
            d \in 0..MaxPollTime}

InitBoot ==
    /\ Quiet
    /\ keyFiles = {}
    /\ sess = Off /\ world = Off /\ pipe = Off /\ xfer = Off
    /\ exec = Off /\ twin = Off
    /\ \E timeout \in BootTimeouts, runningAt \in RunningTimes :
        wait = [on |-> TRUE, fn |-> "WaitForBoot", pc |-> "loop", now |-> 0,
                timeout |-> timeout, deadline |-> 0 + timeout,
                runningAt |-> runningAt, polls |-> 0, sawRunning |-> FALSE,
                result |-> "pending"]

\* for time.Now().Before(deadline) { ... }; after the loop the error
\* "VM %s did not reach running state within %s"
BootLoop ==
    /\ wait.on /\ wait.fn = "WaitForBoot"
    /\ wait.pc = "loop"
    /\ wait' = IF wait.now < wait.deadline
               THEN [wait EXCEPT !.pc = "poll"]
               ELSE [wait EXCEPT !.pc = "returned", !.result = "boottimeout"]
    /\ UNCHANGED <<handlerVars, keyFiles, tfstate, planned, fp, sess, world,
                   pipe, xfer, exec, twin>>

\* vm, err := c.GetVM(vmID); if err != nil { return err };
\* if vm != nil && vm.State == "running" { return nil }
BootPoll ==
    /\ wait.on /\ wait.fn = "WaitForBoot"
    /\ wait.pc = "poll"
    /\ \E r \in PollReturns(wait.now, wait.runningAt) :
        wait' = IF r.err
                THEN [wait EXCEPT !.now = @ + r.d, !.polls = @ + 1,
                                  !.pc = "returned", !.result = "error"]
                ELSE IF r.found /\ r.State = RunningState
                THEN [wait EXCEPT !.now = @ + r.d, !.polls = @ + 1,
                                  !.sawRunning = TRUE,
                                  !.pc = "returned", !.result = "nil"]
                ELSE [wait EXCEPT !.now = @ + r.d, !.polls = @ + 1,
                                  !.pc = "sleep"]
    /\ UNCHANGED <<handlerVars, keyFiles, tfstate, planned, fp, sess, world,
                   pipe, xfer, exec, twin>>

\* time.Sleep(2 * time.Second)
BootSleeps ==
    /\ wait.on /\ wait.fn = "WaitForBoot"
    /\ wait.pc = "sleep"
    /\ wait' = [wait EXCEPT !.now = @ + BootSleep, !.pc = "loop"]
    /\ UNCHANGED <<handlerVars, keyFiles, tfstate, planned, fp, sess, world,
                   pipe, xfer, exec, twin>>

NextBoot == BootLoop \/ BootPoll \/ BootSleeps

SpecBoot == InitBoot /\ [][NextBoot]_vars

\* C22: WaitForBoot ends in one of two ways only: success, and then a poll
\* has seen the state "running", or the boot-timeout error, and then the
\* clock has reached the deadline and no poll has seen "running".
C22_BootEndsInTwoWays ==
    (wait.on /\ wait.fn = "WaitForBoot" /\ wait.pc = "returned") =>
        \/ wait.result = "nil" /\ wait.sawRunning
        \/ /\ wait.result = "boottimeout"
           /\ ~wait.sawRunning
           /\ wait.now >= wait.deadline

\* ---------------------------------------------------------- ExecWithTimeout
\* SpecExec: one call of SSHClient.ExecWithTimeout(command, timeout): the
\* caller, the goroutine that waits for the ssh process, the process and
\* the timer of time.After, in every interleaving.
MaxOutput == 3          \* the most bytes the process writes to stdout
DoneCap == 1

NoResult == [set |-> FALSE, err |-> "nil", out |-> 0]

\* variant of CanSend for a channel without a buffer: a send goes through
\* only while the caller is receiving
CanSendUnbuffered(ch, receiving) == receiving /\ Len(ch) = 0

\* done <- v on done := make(chan error, 1) goes through when the buffer
\* has room
CanSend(ch, receiving) == Len(ch) < DoneCap

\* the error cmd.Wait() returns for a process that has ended
WaitError(proc) ==
    CASE proc = "exit0" -> "nil"
      [] proc = "exitN" -> "exit"
      [] proc = "killed" -> "killed"

InitExec ==
    /\ Quiet
    /\ keyFiles = {}
    /\ sess = Off /\ world = Off /\ pipe = Off /\ xfer = Off
    /\ wait = Off /\ twin = Off
    /\ exec = [on |-> TRUE, pc |-> "start", gpc |-> "none", proc |-> "none",
               timer |-> "none", done |-> <<>>, waitErr |-> "nil",
               written |-> 0, result |-> NoResult, returns |-> 0,
               killedAtTimeout |-> FALSE]

\* cmd.Start(); done := make(chan error, 1); go func() { ... }(); the
\* select arms the timer
ExecStart ==
    /\ exec.on
    /\ exec.pc = "start"
    /\ \E started \in BOOLEAN :
        exec' = IF started
                THEN [exec EXCEPT !.pc = "select", !.proc = "running",
                                  !.gpc = "wait", !.timer = "armed"]
                ELSE [exec EXCEPT !.pc = "returned", !.returns = @ + 1,
                                  !.result = [set |-> TRUE, err |-> "start",
                                              out |-> 0]]
    /\ UNCHANGED <<handlerVars, keyFiles, tfstate, planned, fp, sess, world,
                   pipe, xfer, wait, twin>>

\* the process writes a byte to stdout, which cmd.Stdout captures
ProcWrites ==
    /\ exec.on
    /\ exec.proc = "running"
    /\ exec.written < MaxOutput
    /\ exec' = [exec EXCEPT !.written = @ + 1]
    /\ UNCHANGED <<handlerVars, keyFiles, tfstate, planned, fp, sess, world,
                   pipe, xfer, wait, twin>>

\* the process ends by itself
ProcExits ==
    /\ exec.on
    /\ exec.proc = "running"
    /\ \E how \in {"exit0", "exitN"} : exec' = [exec EXCEPT !.proc = how]
    /\ UNCHANGED <<handlerVars, keyFiles, tfstate, planned, fp, sess, world,
                   pipe, xfer, wait, twin>>

\* the timer of time.After(timeout) fires
TimerFires ==
    /\ exec.on
    /\ exec.timer = "armed"
    /\ exec' = [exec EXCEPT !.timer = "fired"]
    /\ UNCHANGED <<handlerVars, keyFiles, tfstate, planned, fp, sess, world,
                   pipe, xfer, wait, twin>>

\* the goroutine: cmd.Wait() returns once the process has ended
GoWaitReturns ==
    /\ exec.on
    /\ exec.gpc = "wait"
    /\ exec.proc \in {"exit0", "exitN", "killed"}
    /\ exec' = [exec EXCEPT !.gpc = "send", !.waitErr = WaitError(exec.proc)]
    /\ UNCHANGED <<handlerVars, keyFiles, tfstate, planned, fp, sess, world,
                   pipe, xfer, wait, twin>>

\* the goroutine: done <- err, and the goroutine ends
GoSend ==
    /\ exec.on
    /\ exec.gpc = "send"
    /\ CanSend(exec.done, exec.pc = "select")
    /\ exec' = [exec EXCEPT !.gpc = "done", !.done = Append(@, exec.waitErr)]
    /\ UNCHANGED <<handlerVars, keyFiles, tfstate, planned, fp, sess, world,
                   pipe, xfer, wait, twin>>

\* case err := <-done: the result of the process with stdout.String()
SelectDone ==
    /\ exec.on
    /\ exec.pc = "select"
    /\ exec.done # <<>>
    /\ exec' = [exec EXCEPT !.pc = "returned", !.returns = @ + 1,
                            !.done = Tail(@),
                            !.result = [set |-> TRUE,
                                        err |-> IF Head(exec.done) = "nil"
                                                THEN "nil" ELSE "exit",
                                        out |-> exec.written]]
    /\ UNCHANGED <<handlerVars, keyFiles, tfstate, planned, fp, sess, world,
                   pipe, xfer, wait, twin>>

\* case <-time.After(timeout): cmd.Process.Kill() and the timeout error
\* with stdout.String(). The buffer is read while the process may still be
\* written from, so any part of what was captured may be returned.
SelectTimeout ==
    /\ exec.on
    /\ exec.pc = "select"
    /\ exec.timer = "fired"
    /\ \E n \in 0..exec.written :
        exec' = [exec EXCEPT !.pc = "returned", !.returns = @ + 1,
                             !.proc = IF @ = "running" THEN "killed" ELSE @,
                             !.killedAtTimeout = TRUE,
                             !.result = [set |-> TRUE, err |-> "timeout",
                                         out |-> n]]
    /\ UNCHANGED <<handlerVars, keyFiles, tfstate, planned, fp, sess, world,
                   pipe, xfer, wait, twin>>

NextExec ==
    \/ ExecStart
    \/ ProcWrites
    \/ ProcExits
    \/ TimerFires
    \/ GoWaitReturns
    \/ GoSend
    \/ SelectDone
    \/ SelectTimeout

SpecExec == InitExec /\ [][NextExec]_vars

\* The caller and the goroutine are scheduled, the timer fires, and a
\* killed process ends; a process need not end by itself.
SpecExecFair ==
    /\ SpecExec
    /\ WF_vars(ExecStart)
    /\ WF_vars(TimerFires)
    /\ WF_vars(GoWaitReturns)
    /\ WF_vars(GoSend)
    /\ WF_vars(SelectDone \/ SelectTimeout)

\* C30: ExecWithTimeout returns once, with the result of the process or
\* the timeout error, whichever order the end of the process and the timer
\* come in; the goroutine is never held at its send, and once started it
\* always ends, whether or not its result is received.
C30_ExecRaceFree ==
    /\ [](exec.on =>
            /\ exec.returns <= 1
            /\ (exec.pc = "returned") <=> exec.result.set
            /\ (exec.pc = "returned") <=> (exec.returns = 1)
            /\ exec.result.set =>
                  exec.result.err \in {"nil", "exit", "timeout", "start"}
            /\ (exec.gpc = "send") => Len(exec.done) < DoneCap)
    /\ (exec.on /\ exec.gpc # "none") ~> (exec.gpc = "done")
    /\ exec.on ~> (exec.pc = "returned")

\* the timer won although the process had ended: the goroutine has ended
\* and its result stays in the channel
C30_Witness ==
    /\ exec.on
    /\ exec.pc = "returned"
    /\ exec.result.err = "timeout"
    /\ exec.proc = "exit0"
    /\ exec.gpc = "done"
    /\ Len(exec.done) = 1

\* ------------------------------------------------------------- termination
\* SpecLive: the handlers of Spec with the steps that are sure to end. A
\* step is sure to end when the code bounds it: the API calls by the HTTP
\* client's timeout, WaitReachable by its deadline, a command and the flush
\* by the timer of ExecWithTimeout, and the steps that make no remote call.
\* WriteFile and UploadFile run their commands with Exec, which is cmd.Run()
\* without a timer, so nothing makes the mkdir step or the transfer step
\* of a file end.
BoundedStep ==
    \/ ProvGetSSHKey
    \/ ProvNewSSHClient
    \/ ProvWaitReachable
    \/ ProvReachSleep
    \/ CreateFile
    \/ UpdateFile
    \/ ProvExecStart
    \/ ProvExecWait
    \/ ProvSetState
    \/ SyncGetSSHKey
    \/ SyncNewSSHClient
    \/ SyncExecStart
    \/ SyncExecWait
    \/ CommitVM

SpecLive == Spec /\ WF_vars(BoundedStep)

\* C23: every operation that was started returns.
C23_EveryOperationTerminates == (op # "none") ~> (pc = "returned")

\* ------------------------------------------------ claims about repetition
\* the remote actions that change something: uploads, commands and the
\* lifecycle calls of the API
MutatingCalls ==
    {"UploadFile", "WriteFile", "Exec", "CreateVM", "RestoreVM", "BranchVM",
     "CommitVM", "DeleteVM"}
LifecycleCalls == {"CreateVM", "RestoreVM", "BranchVM", "CommitVM", "DeleteVM"}

\* C24: in the calls of one operation no upload of a file block, no
\* execution of a command and no lifecycle call appears twice, and an
\* operation makes at most one lifecycle call; a failed or timed-out
\* mutating call is the last call of its operation.
C24_NoMutatingCallTwice ==
    /\ \A j, k \in 1..Len(log) :
          (j < k /\ log[j].call \in MutatingCalls) =>
              ~(log[j].call = log[k].call /\ log[j].pos = log[k].pos)
    /\ Cardinality({k \in 1..Len(log) : log[k].call \in LifecycleCalls}) <= 1
    /\ \A k \in 1..Len(log) :
          (log[k].call \in MutatingCalls /\ ~log[k].ok) => k = Len(log)

\* a provisioning run that uploaded its file and whose command failed or
\* timed out has returned with the command run once
C24_Witness ==
    /\ world.on
    /\ op \in ProvisionHandlers
    /\ pc = "returned"
    /\ \E k \in 1..Len(log) : log[k].call = "WriteFile" /\ log[k].ok
    /\ LastCall.call = "Exec" /\ ~LastCall.ok
    /\ HasError

\* C25: once the reachability wait of a provisioning run has failed, the
\* run has returned with an error and without a state, it has uploaded no
\* file and started no command, and it has waited only once.
C25_UnreachableStopsRun ==
    (op \in ProvisionHandlers
     /\ \E k \in 1..Len(log) : log[k].call = "WaitReachable" /\ ~log[k].ok) =>
        /\ pc = "returned"
        /\ HasError
        /\ respState.set = "unset"
        /\ Uploads = <<>> /\ Execs = <<>>
        /\ inflight = NoInflight
        /\ Cardinality({k \in 1..Len(log) : log[k].call = "WaitReachable"}) = 1

\* an Update with a file and a command declared whose wait failed
C25_Witness ==
    /\ op = "Update"
    /\ pc = "returned"
    /\ Len(files) >= 1 /\ HasContent(files[1])
    /\ Len(commands) >= 1
    /\ LastCall.call = "WaitReachable" /\ ~LastCall.ok

\* -------------------------------------------------- WriteFile, step by step
\* SpecWrite: one call of SSHClient.WriteFile or SSHClient.UploadFile, one
\* remote command at a time. A command that the VM would run with status 0
\* may still fail (the transport).
ExistingFile == <<SQ>>
WriteFSs == {NoFiles, [files |-> (ExistingFile :> <<0>>), dirs |-> {}]}
WriteContents == {<<>>, <<NL>>}

InitWrite ==
    /\ Quiet
    /\ keyFiles = {}
    /\ sess = Off /\ world = Off /\ pipe = Off
    /\ wait = Off /\ exec = Off /\ twin = Off
    /\ \E fn \in {"WriteFile", "UploadFile"}, p \in Paths, c \in WriteContents,
          fs \in WriteFSs, readable \in BOOLEAN :
        /\ (fn = "WriteFile") => readable
        /\ xfer = [on |-> TRUE, fn |-> fn,
                   pc |-> IF fn = "UploadFile" THEN "readlocal" ELSE "mkdir",
                   path |-> p, local |-> [ok |-> readable, content |-> c],
                   content |-> IF fn = "WriteFile" THEN c ELSE <<>>,
                   fs |-> fs, calls |-> <<>>, err |-> "pending"]

\* UploadFile: content, err := os.ReadFile(localPath); on an error it
\* returns, else it calls s.WriteFile(remotePath, string(content))
UploadReadLocal ==
    /\ xfer.on /\ xfer.pc = "readlocal"
    /\ xfer' = IF xfer.local.ok
               THEN [xfer EXCEPT !.pc = "mkdir", !.content = xfer.local.content]
               ELSE [xfer EXCEPT !.pc = "returned", !.err = "read local file"]
    /\ UNCHANGED <<handlerVars, keyFiles, tfstate, planned, fp, sess, world,
                   pipe, wait, exec, twin>>

\* WriteFile: dir := filepath.Dir(remotePath); mkdir -p unless dir is "."
\* or "/"; an error of Exec is returned as "mkdir on VM"
WriteMkdir ==
    /\ xfer.on /\ xfer.pc = "mkdir"
    /\ LET dir == Dir(xfer.path)
       IN IF NeedsMkdir(dir)
          THEN \E r \in ExecResults(xfer.fs, MkdirCmd(dir)) :
                xfer' = [xfer EXCEPT
                           !.calls = Append(@, [cmd |-> "mkdir", arg |-> dir,
                                                ok |-> r.ok]),
                           !.fs = r.fs,
                           !.pc = IF r.ok THEN "write" ELSE "returned",
                           !.err = IF r.ok THEN @ ELSE "mkdir on VM"]
          ELSE xfer' = [xfer EXCEPT !.pc = "write"]
    /\ UNCHANGED <<handlerVars, keyFiles, tfstate, planned, fp, sess, world,
                   pipe, wait, exec, twin>>

\* WriteFile: echo '<base64>' | base64 -d > '<path>'; an error of Exec is
\* returned as "write file ... on VM"
WriteTransfer ==
    /\ xfer.on /\ xfer.pc = "write"
    /\ \E r \in ExecResults(xfer.fs,
                            WriteCmd(EncodeToString(xfer.content), xfer.path)) :
        xfer' = [xfer EXCEPT
                   !.calls = Append(@, [cmd |-> "write", arg |-> xfer.path,
                                        ok |-> r.ok]),
                   !.fs = r.fs,
                   !.pc = "returned",
                   !.err = IF r.ok THEN "nil" ELSE "write file on VM"]
    /\ UNCHANGED <<handlerVars, keyFiles, tfstate, planned, fp, sess, world,
                   pipe, wait, exec, twin>>

NextWrite == UploadReadLocal \/ WriteMkdir \/ WriteTransfer

SpecWrite == InitWrite /\ [][NextWrite]_vars

\* C26: WriteFile makes the parent directory first and transfers second;
\* the directory step is left out exactly when the parent is "." or "/";
\* after a failed directory step there is no transfer; a failed step makes
\* the call return an error, and nil is returned only after a transfer
\* that succeeded. UploadFile whose local file cannot be read returns an
\* error and has made no remote call.
C26_WriteFileTwoSteps ==
    xfer.on =>
        LET dir == Dir(xfer.path)
            made == \E k \in 1..Len(xfer.calls) : xfer.calls[k].cmd = "mkdir"
        IN /\ Len(xfer.calls) <= 2
           /\ \A k \in 1..Len(xfer.calls) :
                 /\ (xfer.calls[k].cmd = "mkdir") =>
                       k = 1 /\ xfer.calls[k].arg = dir
                 /\ (xfer.calls[k].cmd = "write") =>
                       /\ k = Len(xfer.calls)
                       /\ \A j \in 1..(k - 1) :
                             xfer.calls[j].cmd = "mkdir" /\ xfer.calls[j].ok
                 /\ ~xfer.calls[k].ok =>
                       /\ k = Len(xfer.calls)
                       /\ xfer.pc = "returned" /\ xfer.err # "nil"
           /\ (xfer.pc \in {"write", "returned"} /\ xfer.local.ok) =>
                 (made <=> (dir # DotDir /\ dir # RootDir))
           /\ (xfer.err = "nil") =>
                 /\ xfer.calls # <<>>
                 /\ xfer.calls[Len(xfer.calls)].cmd = "write"
                 /\ xfer.calls[Len(xfer.calls)].ok
           /\ (xfer.fn = "UploadFile" /\ ~xfer.local.ok /\ xfer.pc = "returned") =>
                 xfer.calls = <<>> /\ xfer.err # "nil"

\* the parent is made and the transfer into it succeeds; the destination
\* is right under the root of a made directory
C26_Witness ==
    /\ xfer.on /\ xfer.fn = "WriteFile"
    /\ xfer.pc = "returned" /\ xfer.err = "nil"
    /\ Len(xfer.calls) = 2
    /\ xfer.calls[1].cmd = "mkdir" /\ xfer.calls[2].cmd = "write"

\* ------------------------------------------- Create and Update side by side
\* SpecTwin: ProvisionResource.Create runs on a plan, call by call, and
\* then ProvisionResource.Update runs on the same plan, call by call, with
\* the surroundings answering Update as they answered Create: a call that
\* both handlers make has the same outcome, a local source that Create
\* could (not) read Update can (not) read, a command that did (not) start
\* for Create does (not) start for Update, a VM that answered Create's
\* wait answers Update's before its last probe is over, and the
\* fingerprint is taken over the same local files.
MaxTwinFiles == 2
MaxTwinCmds == 1

TwinPlans ==
    [ID : {StringUnknown}, VMID : {StringValue(v) : v \in VMIDs},
     Files : {ListNull} \cup {ListValue(s) : s \in SeqsUpTo(FileBlocks, MaxTwinFiles)},
     Commands : {ListNull} \cup {ListValue(s) : s \in SeqsUpTo({<<1>>}, MaxTwinCmds)},
     Triggers : {MapValue(<<1>> :> StringValue(<<1>>))}]

\* what is kept of a run: its calls, its diagnostics and the state it set
NoRun == [set |-> FALSE, log |-> <<>>, diags |-> <<>>, respState |-> Unset]

InitTwin ==
    /\ Quiet
    /\ keyFiles = {}
    /\ sess = Off /\ world = Off /\ pipe = Off /\ xfer = Off
    /\ wait = Off /\ exec = Off
    /\ \E plan \in TwinPlans, fs \in LocalFSs :
        twin = [on |-> TRUE, plan |-> plan, fs |-> fs, create |-> NoRun]

\* what a run shows of the answers it was given. The local source of file
\* j was read when the upload of file j was called or is going on, and
\* could not be read when the upload is reported as failed without a call;
\* command k was started when it was run or is running, and was not when
\* it is reported as failed without a call.
Called(l, name, j) == \E k \in 1..Len(l) : l[k].call = name /\ l[k].pos = j
Reported(d, summary, j) ==
    \E k \in 1..Len(d) : d[k] = Error(summary, j)
SourceRead(l, at, j) == Called(l, "UploadFile", j) \/ at = j
SourceNotRead(l, d, j) ==
    Reported(d, "Failed to upload file", j) /\ ~Called(l, "UploadFile", j)
Started(l, at, k) == Called(l, "Exec", k) \/ at = k
NotStarted(l, d, k) ==
    Reported(d, "Command failed", k) /\ ~Called(l, "Exec", k)

\* the file whose upload is going on and the command that is running
UploadAt ==
    IF pc \in {"FileMkdir", "FileTransfer"} /\ HasSource(files[i + 1])
    THEN i + 1 ELSE 0
ExecAt == IF pc = "ExecWait" THEN inflight.pos ELSE 0

\* Update is answered as Create was
SameAnswers ==
    (twin.on /\ op = "Update") =>
        LET c == twin.create
        IN /\ \A k \in 1..Len(log), j \in 1..Len(c.log) :
                 (log[k].call = c.log[j].call /\ log[k].pos = c.log[j].pos) =>
                     log[k].ok = c.log[j].ok
           /\ (pc = "ReachSleep" /\ inflight.pos >= MaxProbes) =>
                 ~(\E j \in 1..Len(c.log) :
                      c.log[j].call = "WaitReachable" /\ c.log[j].ok)
           /\ \A j \in 1..MaxTwinFiles :
                 /\ ~(SourceRead(log, UploadAt, j) /\ SourceNotRead(c.log, c.diags, j))
                 /\ ~(SourceNotRead(log, diags, j) /\ Called(c.log, "UploadFile", j))
           /\ \A k \in 1..MaxTwinCmds :
                 /\ ~(Started(log, ExecAt, k) /\ NotStarted(c.log, c.diags, k))
                 /\ ~(NotStarted(log, diags, k) /\ Called(c.log, "Exec", k))

\* Terraform calls Create with the plan
TwinCreate ==
    /\ twin.on
    /\ ~twin.create.set
    /\ InvokeProvision("Create", twin.plan)

\* Create has returned: what it did is kept, and Terraform calls Update
\* with the same plan
TwinUpdate ==
    /\ twin.on
    /\ op = "Create"
    /\ pc = "returned"
    /\ twin' = [twin EXCEPT !.create = [set |-> TRUE, log |-> log, diags |-> diags,
                                        respState |-> respState]]
    /\ op' = "Update"
    /\ pc' = "GetSSHKey"
    /\ i' = 0
    /\ log' = <<>>
    /\ diags' = <<>>
    /\ respState' = Unset
    /\ tflogs' = {}
    /\ UNCHANGED <<req, inflight, deferred, keyFiles, tfstate, planned, fp, sess,
                   world, pipe, xfer, wait, exec>>

\* the fingerprint is taken over the local files of this run
TwinSetState ==
    /\ twin.on
    /\ \E enum \in Enumerations(DOMAIN req.Plan.Triggers.elems) :
        SetState(twin.fs, enum)

\* one step of the handler that is running
TwinStep ==
    /\ twin.on
    /\ \/ ProvGetSSHKey
       \/ ProvNewSSHClient
       \/ ProvWaitReachable
       \/ ProvReachSleep
       \/ CreateFile
       \/ UpdateFile
       \/ ProvFileMkdir
       \/ ProvFileTransfer
       \/ ProvExecStart
       \/ ProvExecWait
       \/ TwinSetState
    /\ SameAnswers'

NextTwin ==
    \/ TwinCreate
    \/ TwinStep
    \/ TwinUpdate

SpecTwin == InitTwin /\ [][NextTwin]_vars

\* C27: for one plan and one behaviour of the surroundings, Update makes
\* the calls Create makes, in the same order, and ends as Create ends: with
\* the same fingerprint, or with an error at the same step.
C27_UpdateRunsAsCreate ==
    (twin.on /\ op = "Update" /\ pc = "returned") =>
        /\ log = twin.create.log
        /\ diags = twin.create.diags
        /\ respState = twin.create.respState

\* ------------------------------------------- computed attributes after Create

\* the computed attributes of vers_vm, vers_vm_restore and vers_vm_branch
ComputedVMAttributes == {"ID", "State", "SSHHost", "SSHPrivateKey", "CreatedAt"}

\* C28: after a successful Create of vers_vm, vers_vm_restore or
\* vers_vm_branch every computed attribute written to state (id, state,
\* ssh_host, ssh_private_key, created_at) is a known value, whether the VM
\* was found, was missing from the list or the list call failed, and
\* whether the key fetch succeeded or failed.
C28_CreateLeavesNoUnknown ==
    (op \in VMCreateOps /\ pc = "returned" /\ ~HasError) =>
        /\ respState.set = "set"
        /\ \A f \in ComputedVMAttributes : respState.model[f].kind = "known"

\* ------------------------------------------- the outcome of a commit

\* a vers_vm_commit operation succeeds when its handler reports no error
\* and sets the state, and Terraform takes the result it returned
CommitSucceeds ==
    /\ ~HasError
    /\ respState.set = "set"
    /\ ~Inconsistent(req.Plan, respState.model)
    /\ ~Invalid(respState.model)

\* C12: a commit operation (Create or Update of vers_vm_commit) issues the
\* remote commit call exactly once, whatever became of the flush before it
\* (key not retrieved, session not created, sync failed or timed out), and
\* the operation succeeds exactly when that call succeeded.
C12_CommitOutcomeIgnoresFlush ==
    op \in CommitHandlers =>
        /\ Len(CommitCalls) <= 1
        /\ pc = "returned" =>
              /\ Len(CommitCalls) = 1
              /\ CommitSucceeds <=> CommitCalls[1].ok

\* ------------------------------------------------- the id of a re-commit

\* C29: an in-place update of vers_vm_commit leaves every attribute that
\* the plan showed as known as planned: the id written to state after the
\* re-commit is the id carried in the plan, which UseStateForUnknown fixes
\* to the id recorded before.
C29_RecommitKeepsPlannedID ==
    (op = "VMCommitUpdate" /\ pc = "returned" /\ ~HasError) =>
        /\ respState.set = "set"
        /\ req.Plan.ID.kind = "known"
        /\ req.Plan.ID = world.rec["commit"].model.ID
        /\ respState.model.ID = req.Plan.ID

====
